---------------------------- MODULE Spec2Model ----------------------------
(***************************************************************************)
(* Model of the mock inference servers (mock_engine.py, the Flask server,  *)
(* and mock_vllm_server.py, the FastAPI server) and of the configuration   *)
(* step of the benchmark drivers that rewrite mock_engine.py, and of the   *)
(* sweep of the drivers (benchmark.py, benchmark_grep.py,                  *)
(* benchmark_with_logs.py) over their configurations and queries.          *)
(*                                                                         *)
(* Python strings are TLA+ strings: Len, \o and SubSeq act on them as on   *)
(* sequences of characters, so the text functions (lower, split, join, in, *)
(* re.search over an alternation of literals) are computed character by    *)
(* character as the code computes them.  Python floats are modelled as     *)
(* exact rationals [n, d] (numerator, positive denominator); rounding of   *)
(* IEEE doubles is outside the model.                                      *)
(***************************************************************************)
EXTENDS Integers, Sequences, FiniteSets, TLC

VARIABLES
    source,     \* mock_engine.py on disk: the lines the drivers and the loader read
    engine,     \* the running mock_engine process: [up, prefill, decode]
    req,        \* the request being served (or last served)
    resp,       \* the handler's result for req
    slept,      \* the time.sleep / asyncio.sleep calls made for req, in order
    gen,        \* the streaming generator of req: [active, words, i, phase]
    events,     \* the server-sent events emitted for req, in order
    timing,     \* inputs and result of a direct call of the timing function
    driver,     \* the benchmark driver process: its variant, position and data
    call,       \* inputs and result of a direct call of a pure function
    logs        \* mock_engine.log, the thread that tails it and log_queue

vars == <<source, engine, req, resp, slept, gen, events, timing, driver, call, logs>>

(***************************************************************************)
(* Bounds of the model.                                                    *)
(***************************************************************************)
MaxMessages == 2        \* longest message list of a chat request
MaxDraw == 4            \* the random draws 0..MaxDraw of the vllm grep response are explored
MaxTokens == 12         \* largest token count given to the timing functions directly
MaxQueries == 2         \* queries of a suite that the driver model runs
MaxConfigs == 2         \* configurations of a sweep that the driver model runs
MaxResults == 3         \* longest result list given to the statistics functions directly
MaxQueryWords == 2      \* most words of a query given to grep_search directly
MaxWords == 5           \* most words of a text given to the stream generators directly
MaxLogLines == 1        \* lines written to mock_engine.log during a sweep

(***************************************************************************)
(* Python string primitives.                                               *)
(***************************************************************************)
Char(s, i) == SubSeq(s, i, i)

UpperCase == "ABCDEFGHIJKLMNOPQRSTUVWXYZ"
LowerCase == "abcdefghijklmnopqrstuvwxyz"

\* str.lower() on one character (ASCII).
LowerChar(c) ==
    IF \E i \in 1..26 : Char(UpperCase, i) = c
    THEN Char(LowerCase, CHOOSE i \in 1..26 : Char(UpperCase, i) = c)
    ELSE c

RECURSIVE LowerFrom(_, _)
LowerFrom(s, i) ==
    IF i > Len(s) THEN "" ELSE LowerChar(Char(s, i)) \o LowerFrom(s, i + 1)

\* str.lower()
Lower(s) == LowerFrom(s, 1)

\* The string test (k in s): k occurs in s as a contiguous substring.
Contains(s, k) ==
    \E i \in 1..(Len(s) - Len(k) + 1) : SubSeq(s, i, i + Len(k) - 1) = k

\* s.startswith(k)
StartsWith(s, k) == Len(k) <= Len(s) /\ SubSeq(s, 1, Len(k)) = k

\* Characters str.split() treats as separators.
IsSpace(c) == c \in {" ", "\n", "\t", "\r"}

\* First index >= i of s holding a non-space character, Len(s)+1 when none.
SkipSpaces(s, i) ==
    IF \E j \in i..Len(s) : ~IsSpace(Char(s, j))
    THEN CHOOSE j \in i..Len(s) :
            /\ ~IsSpace(Char(s, j))
            /\ \A k \in i..(j - 1) : IsSpace(Char(s, k))
    ELSE Len(s) + 1

\* First index >= i of s holding a space character, Len(s)+1 when none.
SkipWord(s, i) ==
    IF \E j \in i..Len(s) : IsSpace(Char(s, j))
    THEN CHOOSE j \in i..Len(s) :
            /\ IsSpace(Char(s, j))
            /\ \A k \in i..(j - 1) : ~IsSpace(Char(s, k))
    ELSE Len(s) + 1

RECURSIVE SplitFrom(_, _)
SplitFrom(s, i) ==
    LET a == SkipSpaces(s, i)
        b == SkipWord(s, a)
    IN  IF a > Len(s) THEN <<>>
        ELSE <<SubSeq(s, a, b - 1)>> \o SplitFrom(s, b)

\* str.split() with no argument: the maximal runs of non-space characters.
Split(s) == SplitFrom(s, 1)

RECURSIVE Join(_, _)
\* sep.join(items)
Join(items, sep) ==
    IF items = <<>> THEN ""
    ELSE IF Len(items) = 1 THEN items[1]
    ELSE items[1] \o sep \o Join(Tail(items), sep)

\* Concatenation of a sequence of sequences (list.extend over a loop).
RECURSIVE Flatten(_)
Flatten(lists) ==
    IF lists = <<>> THEN <<>> ELSE Head(lists) \o Flatten(Tail(lists))

(***************************************************************************)
(* Exact rationals standing for Python floats.                             *)
(***************************************************************************)
RECURSIVE GCD(_, _)
GCD(a, b) == IF b = 0 THEN a ELSE GCD(b, a % b)

\* The rational n/d (n >= 0, d > 0), in lowest terms.
Frac(n, d) == LET g == GCD(n, d) IN [n |-> n \div g, d |-> d \div g]
FracAdd(a, b) == Frac(a.n * b.d + b.n * a.d, a.d * b.d)
FracLeq(a, b) == a.n * b.d <= b.n * a.d
FracEq(a, b) == a.n * b.d = b.n * a.d
FracMin(a, b) == IF FracLeq(a, b) THEN a ELSE b

RECURSIVE FracSum(_)
FracSum(fs) == IF fs = <<>> THEN Frac(0, 1) ELSE FracAdd(Head(fs), FracSum(Tail(fs)))
FracDiv(a, b) == Frac(a.n * b.d, a.d * b.n)
FracLess(a, b) == a.n * b.d < b.n * a.d

(***************************************************************************)
(* mock_engine.py: canned data.                                            *)
(***************************************************************************)
\* REASONING_TRACES, in insertion order; a pattern is an alternation of
\* literals, given as the sequence of its alternatives ("default" is ".*").
\* A TLA+ string cannot hold a backquote: the code fences of the debug and
\* refactor responses are written ~~~ (same length, no space, not a letter).
REASONING_TRACES == <<
    [name |-> "grep", pattern |-> <<"grep", "search", "find">>,
     response |-> "<think>\nTo search for this pattern, I'll analyze the codebase structure:\n1. First, I'll identify the relevant directories\n2. Then grep through source files for the pattern\n3. Finally, I'll compile the matching results\n\nLet me execute the search...\n</think>\n\nFound 3 matches:\n- src/utils.py:45: def grep_pattern(text, pattern):\n- src/search.py:12: # Implements grep-like functionality\n- tests/test_grep.py:8: def test_grep_basic():\n"],
    [name |-> "debug", pattern |-> <<"debug", "error", "bug", "fix">>,
     response |-> "<think>\nAnalyzing the error trace:\n1. The stack trace shows a NullPointerException\n2. This occurs in the data validation layer\n3. Root cause: missing null check before dereferencing\n\nProposed fix:\n- Add defensive null checks in validate_input()\n- Add test cases for null inputs\n- Update documentation\n</think>\n\nThe bug is in src/validator.py line 67. Add this check:\n~~~python\nif data is None:\n    raise ValueError(\"Input cannot be None\")\n~~~\n"],
    [name |-> "refactor", pattern |-> <<"refactor", "improve", "optimize", "clean">>,
     response |-> "<think>\nCode improvement analysis:\n1. Current code has duplicate logic in 3 places\n2. Can extract common functionality into a helper\n3. This will reduce complexity and improve maintainability\n\nSteps:\n- Extract common pattern into extract_common_logic()\n- Update call sites to use new helper\n- Add unit tests for the extracted function\n</think>\n\nRefactoring recommendation:\nCreate a new function in src/helpers.py:\n~~~python\ndef extract_common_logic(data, config):\n    # Common validation and processing\n    return processed_data\n~~~\n"],
    [name |-> "explain", pattern |-> <<"explain", "what", "how", "why">>,
     response |-> "<think>\nBreaking down the concept:\n1. This is a producer-consumer pattern\n2. The queue manages work items between threads\n3. Synchronization prevents race conditions\n\nKey components:\n- Producer adds items to queue\n- Consumer processes items from queue\n- Lock ensures thread safety\n</think>\n\nThis code implements a thread-safe queue where:\n- Multiple producers can add work items concurrently\n- Multiple consumers process items in parallel\n- The threading.Lock() prevents data corruption\n- The queue.Queue provides built-in synchronization\n"],
    [name |-> "default", pattern |-> <<"">>,
     response |-> "<think>\nProcessing the request:\n1. Analyzing the input query\n2. Searching relevant code patterns\n3. Generating contextual response\n</think>\n\nI'll help you with that. Based on the context, here's what I found in the codebase.\n"]
>>

\* REASONING_TRACES["default"]["response"]
DefaultResponse == REASONING_TRACES[5].response

\* GREP_RESPONSES, by category.
GREP_RESPONSES == [
    function |-> <<"src/main.py:23:def main():",
                   "src/utils.py:45:def helper_function(x, y):",
                   "src/api.py:12:def process_request(data):">>,
    class |-> <<"src/models.py:5:class DataModel:",
                "src/handlers.py:18:class RequestHandler:",
                "src/errors.py:3:class CustomError(Exception):">>,
    import |-> <<"src/main.py:1:import os",
                 "src/utils.py:1:import json",
                 "src/api.py:1:from flask import Flask">>,
    variable |-> <<"src/config.py:10:API_KEY = 'secret'",
                   "src/settings.py:5:DEBUG = True",
                   "src/constants.py:3:MAX_RETRIES = 5">>,
    test |-> <<"tests/test_main.py:15:def test_initialization():",
               "tests/test_api.py:8:class TestAPI(unittest.TestCase):",
               "tests/test_utils.py:20:def test_helper_function():">>
]

\* keyword_map of grep_search, in insertion order.
keyword_map == <<
    [category |-> "function", keywords |-> <<"function", "def", "method">>],
    [category |-> "class", keywords |-> <<"class", "classes">>],
    [category |-> "import", keywords |-> <<"import", "imports", "dependencies">>],
    [category |-> "variable",
     keywords |-> <<"variable", "var", "declaration", "const", "constant">>],
    [category |-> "test", keywords |-> <<"test", "tests", "testing">>]
>>

(***************************************************************************)
(* Python values that are not always strings (a JSON field may be absent,  *)
(* null, a string or a list) are tagged records [kind, s, items].          *)
(***************************************************************************)
PyNone == [kind |-> "none", s |-> "", items |-> <<>>]
PyStr(s) == [kind |-> "str", s |-> s, items |-> <<>>]
PyList(items) == [kind |-> "list", s |-> "", items |-> items]

\* Items of a list-form content: {"type": "text", "text": s}, {"content": s},
\* a bare string s, and {"type": "image"} (a dict with no text-bearing key).
TextItem(s) == [kind |-> "text", s |-> s]
ContentItem(s) == [kind |-> "content", s |-> s]
StrItem(s) == [kind |-> "str", s |-> s]
ImageItem == [kind |-> "image", s |-> ""]

\* repr() of a list item (strings here hold no quote or backslash).
ItemRepr(item) ==
    CASE item.kind = "text" -> "{'type': 'text', 'text': '" \o item.s \o "'}"
      [] item.kind = "content" -> "{'content': '" \o item.s \o "'}"
      [] item.kind = "str" -> "'" \o item.s \o "'"
      [] OTHER -> "{'type': 'image'}"

\* str(v)
PyToStr(v) ==
    CASE v.kind = "none" -> "None"
      [] v.kind = "str" -> v.s
      [] OTHER -> "[" \o Join([i \in 1..Len(v.items) |-> ItemRepr(v.items[i])], ", ") \o "]"

\* bool(v): None, "" and [] are falsy.
Truthy(v) ==
    CASE v.kind = "none" -> FALSE
      [] v.kind = "str" -> v.s # ""
      [] OTHER -> v.items # <<>>

(***************************************************************************)
(* mock_engine.py: pure functions.                                         *)
(***************************************************************************)
\* estimate_tokens rounding up.
estimate_tokens_Ceil(text) ==
    IF ~Truthy(text) THEN 0 ELSE (Len(PyToStr(text)) + 3) \div 4

\* estimate_tokens(text): 0 for a falsy value, else len(str(text)) // 4.
estimate_tokens(text) ==
    IF ~Truthy(text) THEN 0 ELSE Len(PyToStr(text)) \div 4

\* re.search(pattern, s) for a pattern that is an alternation of literals.
re_search(pattern, s) == \E k \in 1..Len(pattern) : Contains(s, pattern[k])

RECURSIVE select_loop(_, _, _)
\* The for loop of select_reasoning_trace from the i-th trace on, searches
\* counting the re.search calls made so far: the first non-default trace that matches.
select_loop(prompt_lower, i, searches) ==
    IF i > Len(REASONING_TRACES)
    THEN [response |-> DefaultResponse, searches |-> searches]
    ELSE IF REASONING_TRACES[i].name # "default"
    THEN IF re_search(REASONING_TRACES[i].pattern, prompt_lower)
         THEN [response |-> REASONING_TRACES[i].response, searches |-> searches + 1]
         ELSE select_loop(prompt_lower, i + 1, searches + 1)
    ELSE select_loop(prompt_lower, i + 1, searches)

\* select_reasoning_trace without prompt_lower = str(prompt).lower().
select_reasoning_trace_NoLower(prompt) ==
    IF ~Truthy(prompt)
    THEN [response |-> DefaultResponse, searches |-> 0]
    ELSE select_loop(PyToStr(prompt), 1, 0)

\* select_reasoning_trace without the early return for a falsy prompt.
select_reasoning_trace_NoGuard(prompt) ==
    select_loop(Lower(PyToStr(prompt)), 1, 0)

\* select_reasoning_trace with the loop started after the grep trace.
select_reasoning_trace_SkipGrep(prompt) ==
    IF ~Truthy(prompt)
    THEN [response |-> DefaultResponse, searches |-> 0]
    ELSE select_loop(Lower(PyToStr(prompt)), 2, 0)

\* select_reasoning_trace(prompt): the response returned and the number of
\* re.search calls made on the way.
select_reasoning_trace(prompt) ==
    IF ~Truthy(prompt)
    THEN [response |-> DefaultResponse, searches |-> 0]
    ELSE select_loop(Lower(PyToStr(prompt)), 1, 0)

\* grep_search that stops at the first category that qualifies.
grep_search_FirstOnly(query) ==
    IF ~Truthy(query) THEN "No query provided"
    ELSE LET query_lower == Lower(PyToStr(query))
             hit(c) == \E k \in 1..Len(keyword_map[c].keywords) :
                          Contains(query_lower, keyword_map[c].keywords[k])
             hits == {c \in 1..Len(keyword_map) : hit(c)}
             first == CHOOSE c \in hits : \A d \in hits : c <= d
         IN  Join(IF hits = {} THEN <<"No matches found">>
                  ELSE GREP_RESPONSES[keyword_map[first].category], "\n")

\* grep_search(query)
grep_search(query) ==
    IF ~Truthy(query) THEN "No query provided"
    ELSE LET query_lower == Lower(PyToStr(query))
             hit(c) == \E k \in 1..Len(keyword_map[c].keywords) :
                          Contains(query_lower, keyword_map[c].keywords[k])
             results == Flatten([c \in 1..Len(keyword_map) |->
                            IF hit(c) THEN GREP_RESPONSES[keyword_map[c].category]
                            ELSE <<>>])
         IN  Join(IF results = <<>> THEN <<"No matches found">> ELSE results, "\n")

(***************************************************************************)
(* mock_engine.py as a file: the lines that hold the two rate constants    *)
(* and the function that reads them (lines 16-17 and 152-156).  The        *)
(* drivers rewrite the file as text; the server reads it when it starts.   *)
(***************************************************************************)
MockEngineSource == <<
    "PREFILL_TOKENS_PER_SEC = 1000  # Simulated prefill speed",
    "DECODE_TOKENS_PER_SEC = 50     # Simulated decode speed",
    "def simulate_timing(prompt_tokens, completion_tokens):",
    "    \"\"\"Simulate realistic inference timing\"\"\"",
    "    prefill_time = prompt_tokens / PREFILL_TOKENS_PER_SEC",
    "    decode_time = completion_tokens / DECODE_TOKENS_PER_SEC",
    "    return prefill_time + decode_time"
>>

Digits == "0123456789"
IsDigit(c) == \E i \in 1..10 : Char(Digits, i) = c
DigitValue(c) == (CHOOSE i \in 1..10 : Char(Digits, i) = c) - 1

\* Index after the run of digits of s that starts at i.
DigitsEnd(s, i) ==
    IF \E j \in i..Len(s) : ~IsDigit(Char(s, j))
    THEN CHOOSE j \in i..Len(s) :
            /\ ~IsDigit(Char(s, j))
            /\ \A k \in i..(j - 1) : IsDigit(Char(s, k))
    ELSE Len(s) + 1

RECURSIVE ParseDigits(_, _)
\* The value of the decimal literal s[1..n].
ParseDigits(s, n) ==
    IF n = 0 THEN 0 ELSE 10 * ParseDigits(s, n - 1) + DigitValue(Char(s, n))

\* benchmark.py / benchmark_with_logs.py, update_mock_engine_speeds: every
\* line that contains the constant's name and an "=" is replaced whole.
update_speeds_line(line, prefill_speed, decode_speed) ==
    IF Contains(line, "PREFILL_TOKENS_PER_SEC") /\ Contains(line, "=")
    THEN "PREFILL_TOKENS_PER_SEC = " \o ToString(prefill_speed) \o "  # Simulated prefill speed"
    ELSE IF Contains(line, "DECODE_TOKENS_PER_SEC") /\ Contains(line, "=")
    THEN "DECODE_TOKENS_PER_SEC = " \o ToString(decode_speed) \o "     # Simulated decode speed"
    ELSE line

update_mock_engine_speeds(lines, prefill_speed, decode_speed) ==
    [i \in 1..Len(lines) |-> update_speeds_line(lines[i], prefill_speed, decode_speed)]

RECURSIVE re_sub_decode(_, _, _)
\* re.sub(r'DECODE_TOKENS_PER_SEC = \d+', 'DECODE_TOKENS_PER_SEC = <n>', line)
\* from index i on: every match, left to right, is replaced.
re_sub_decode(line, i, tokens_per_sec) ==
    LET key == "DECODE_TOKENS_PER_SEC = "
        at(j) == /\ j + Len(key) <= Len(line)
                 /\ SubSeq(line, j, j + Len(key) - 1) = key
                 /\ IsDigit(Char(line, j + Len(key)))
    IN  IF \E j \in i..Len(line) : at(j)
        THEN LET j == CHOOSE j \in i..Len(line) :
                        at(j) /\ \A k \in i..(j - 1) : ~at(k)
                 e == DigitsEnd(line, j + Len(key))
             IN  SubSeq(line, i, j - 1) \o key \o ToString(tokens_per_sec)
                    \o re_sub_decode(line, e, tokens_per_sec)
        ELSE SubSeq(line, i, Len(line))

\* benchmark_grep.py, update_mock_engine_speed
update_mock_engine_speed(lines, tokens_per_sec) ==
    [i \in 1..Len(lines) |-> re_sub_decode(lines[i], 1, tokens_per_sec)]

\* Python compiles the file when the server starts: an indented line must
\* continue a block, i.e. follow an indented line or a line ending in ":".
Indented(line) == StartsWith(line, " ")
Compiles(lines) ==
    \A i \in 1..Len(lines) :
        Indented(lines[i]) =>
            /\ i > 1
            /\ \/ Indented(lines[i - 1])
               \/ Char(lines[i - 1], Len(lines[i - 1])) = ":"

\* The value a module-level constant has after the file has run: that of
\* the last line "NAME = <digits>" at column 0.
ModuleConstant(lines, name) ==
    LET key == name \o " = "
        defs == {i \in 1..Len(lines) : StartsWith(lines[i], key)}
        last == CHOOSE i \in defs : \A j \in defs : j <= i
        rest == SubSeq(lines[last], Len(key) + 1, Len(lines[last]))
    IN  ParseDigits(rest, DigitsEnd(rest, 1) - 1)

\* python mock_engine.py: the process serves only if the file compiles.
start_engine(lines) ==
    IF Compiles(lines)
    THEN [up |-> TRUE,
          prefill |-> ModuleConstant(lines, "PREFILL_TOKENS_PER_SEC"),
          decode |-> ModuleConstant(lines, "DECODE_TOKENS_PER_SEC")]
    ELSE [up |-> FALSE, prefill |-> 0, decode |-> 0]

\* benchmark.py TOKEN_CONFIGS / benchmark_with_logs.py CONFIGS
TOKEN_CONFIGS == <<[prefill |-> 500, decode |-> 25], [prefill |-> 10000000, decode |-> 10000000]>>
\* benchmark_grep.py TOKEN_SPEEDS_TO_TEST
TOKEN_SPEEDS_TO_TEST == <<25, 50, 100, 200, 500>>
\* The speeds a caller may hand to update_mock_engine_speed: the driver's own
\* list and zero, which nothing in the function excludes.
SpeedInputs == {TOKEN_SPEEDS_TO_TEST[i] : i \in 1..Len(TOKEN_SPEEDS_TO_TEST)} \cup {0}


(***************************************************************************)
(* mock_engine.py: requests, responses and the two POST handlers.          *)
(***************************************************************************)
\* A request: the server it is sent to, the route, and the JSON body.  body is
\* "object" for a JSON object with fields, "null" for a body whose JSON value
\* is falsy (null, {}), "empty" for a request declared as application/json
\* whose body is empty or not JSON, "absent" for a request with no body and
\* no JSON content type.
NoReq == [server |-> "none", endpoint |-> "", body |-> "", prompt |-> PyNone,
          messages |-> <<>>, stream |-> FALSE]
CompletionReq(prompt) ==
    [server |-> "engine", endpoint |-> "completions", body |-> "object",
     prompt |-> prompt, messages |-> <<>>, stream |-> FALSE]
ChatReq(server, messages, stream) ==
    [server |-> server, endpoint |-> "chat", body |-> "object",
     prompt |-> PyNone, messages |-> messages, stream |-> stream]
NullBodyReq(endpoint) ==
    [server |-> "engine", endpoint |-> endpoint, body |-> "null",
     prompt |-> PyNone, messages |-> <<>>, stream |-> FALSE]

EmptyBodyReq(endpoint) ==
    [server |-> "engine", endpoint |-> endpoint, body |-> "empty",
     prompt |-> PyNone, messages |-> <<>>, stream |-> FALSE]
AbsentBodyReq(endpoint) ==
    [server |-> "engine", endpoint |-> endpoint, body |-> "absent",
     prompt |-> PyNone, messages |-> <<>>, stream |-> FALSE]
BodylessReqs(endpoint) ==
    {NullBodyReq(endpoint), EmptyBodyReq(endpoint), AbsentBodyReq(endpoint)}

\* str(e) of the werkzeug exceptions request.json raises starts with the
\* status line of the exception.
BadRequestMessage == "400 Bad Request"
UnsupportedMediaTypeMessage == "415 Unsupported Media Type"

\* data = request.json: the outcomes of Flask's property.  A JSON object is
\* returned as it is and a falsy JSON value as a falsy value.  A body that
\* does not parse makes get_json call on_json_loading_failed, which raises
\* BadRequest.  Without a JSON content type the property returns None
\* (Werkzeug before 2.1) or raises BadRequest or UnsupportedMediaType (later
\* releases): the source pins no release.
request_json(body) ==
    CASE body = "object" -> {[raised |-> FALSE, falsy |-> FALSE, message |-> ""]}
      [] body = "null" -> {[raised |-> FALSE, falsy |-> TRUE, message |-> ""]}
      [] body = "empty" -> {[raised |-> TRUE, falsy |-> FALSE, message |-> BadRequestMessage]}
      [] OTHER -> {[raised |-> FALSE, falsy |-> TRUE, message |-> ""],
                   [raised |-> TRUE, falsy |-> FALSE, message |-> BadRequestMessage],
                   [raised |-> TRUE, falsy |-> FALSE, message |-> UnsupportedMediaTypeMessage]}

Message(role, content) == [role |-> role, content |-> content]

\* What a handler produced: the HTTP status, the envelope's "object", the
\* response text, the usage block, the error message, and the handler's
\* locals user_message (the text selection ran on), trace (the value of
\* select_reasoning_trace), searches (re.search calls it made) and grep
\* (whether the grep branch was taken).
NoResp == [status |-> 0, object |-> "", text |-> "",
           prompt_tokens |-> 0, completion_tokens |-> 0, total_tokens |-> 0,
           error |-> "", user_message |-> "", trace |-> "", searches |-> 0,
           grep |-> FALSE]

NoGen == [phase |-> "none", words |-> <<>>, i |-> 0]
NoTiming == [fn |-> "none", p |-> 0, c |-> 0, raised |-> FALSE, value |-> Frac(0, 1)]

\* The ceiling of the suspension, min(timing_delay, 2.0), in seconds.
SleepCap == 2
\* chunk_size of stream_response.generate
chunk_size == 3

\* simulate_timing with the two rates exchanged.
simulate_timing_Swapped(prompt_tokens, completion_tokens) ==
    IF engine.prefill = 0 \/ engine.decode = 0
    THEN [raised |-> TRUE, value |-> Frac(0, 1)]
    ELSE [raised |-> FALSE,
          value |-> FracAdd(Frac(prompt_tokens, engine.decode),
                            Frac(completion_tokens, engine.prefill))]

\* simulate_timing(prompt_tokens, completion_tokens), reading the module's
\* rate constants; a zero divisor raises ZeroDivisionError.
simulate_timing(prompt_tokens, completion_tokens) ==
    IF engine.prefill = 0 \/ engine.decode = 0
    THEN [raised |-> TRUE, value |-> Frac(0, 1)]
    ELSE [raised |-> FALSE,
          value |-> FracAdd(Frac(prompt_tokens, engine.prefill),
                            Frac(completion_tokens, engine.decode))]

\* The suspension without the ceiling: time.sleep(timing_delay).
engine_sleep_NoCap(timing_delay) == timing_delay

\* The suspension of a non-streaming handler: time.sleep(min(timing_delay, 2.0)).
engine_sleep(timing_delay) == FracMin(timing_delay, Frac(SleepCap, 1))

\* The JSON error reply of a handler, {"error": message}: no text, no usage
\* (the locals computed before the error are kept).
ErrorResp(status, message, locals) ==
    [locals EXCEPT !.status = status, !.object = "error", !.error = message,
        !.text = "", !.prompt_tokens = 0, !.completion_tokens = 0]

\* The tail of both handlers: simulate the timing, sleep, build the envelope.
\* Gives the response and the sleeps made.
timed_reply(object, locals) ==
    LET timing_delay == simulate_timing(locals.prompt_tokens, locals.completion_tokens)
    IN  IF timing_delay.raised
        THEN [resp |-> ErrorResp(500, "division by zero", locals), slept |-> <<>>]
        ELSE [resp |-> [locals EXCEPT !.status = 200, !.object = object,
                            !.total_tokens = locals.prompt_tokens + locals.completion_tokens],
              slept |-> <<engine_sleep(timing_delay.value)>>]

\* The search test of completions(): 'grep' or 'search' in str(prompt).lower().
completions_is_grep(prompt) ==
    \/ Contains(Lower(PyToStr(prompt)), "grep")
    \/ Contains(Lower(PyToStr(prompt)), "search")

\* completions(): the locals up to the token counts.
completions_locals(prompt) ==
    LET words == Split(PyToStr(prompt))
        grep_query == IF words # <<>> THEN words[Len(words)] ELSE ""
        sel == select_reasoning_trace(prompt)
        is_grep == completions_is_grep(prompt)
        response_text ==
            IF is_grep
            THEN sel.response \o "\n\nGrep results:\n" \o grep_search(PyStr(grep_query))
            ELSE sel.response
    IN  [NoResp EXCEPT !.text = response_text,
            !.prompt_tokens = estimate_tokens(prompt),
            !.completion_tokens = estimate_tokens(PyStr(response_text)),
            !.user_message = PyToStr(prompt),
            !.trace = sel.response, !.searches = sel.searches, !.grep = is_grep]

\* The text of a list-form content: the text-bearing items, joined by ' '.
RECURSIVE item_texts(_)
item_texts(items) ==
    IF items = <<>> THEN <<>>
    ELSE (IF Head(items).kind \in {"text", "content", "str"}
          THEN <<Head(items).s>> ELSE <<>>) \o item_texts(Tail(items))

\* The text of one message's content, as chat_completions() reads it.
content_text(content) ==
    IF content.kind = "list" THEN Join(item_texts(content.items), " ")
    ELSE IF Truthy(content) THEN PyToStr(content) ELSE ""

RECURSIVE extract_from(_, _)
\* for msg in reversed(messages), from the i-th message downwards: the first
\* message of role 'user' decides; "" when there is none.
extract_from(messages, i) ==
    IF i = 0 THEN ""
    ELSE IF messages[i].role = "user" THEN content_text(messages[i].content)
    ELSE extract_from(messages, i - 1)

extract_user_message(messages) == extract_from(messages, Len(messages))

\* The search test of chat_completions(): 'grep', 'search' or 'find'.
chat_is_grep(user_message) ==
    \/ Contains(Lower(user_message), "grep")
    \/ Contains(Lower(user_message), "search")
    \/ Contains(Lower(user_message), "find")

RECURSIVE sum_tokens(_)
\* sum(estimate_tokens(msg.get('content', '')) for msg in messages)
sum_tokens(messages) ==
    IF messages = <<>> THEN 0
    ELSE estimate_tokens(Head(messages).content) + sum_tokens(Tail(messages))

\* chat_completions(): the locals up to the token counts.
chat_locals(messages) ==
    LET user_message == extract_user_message(messages)
        sel == select_reasoning_trace(PyStr(user_message))
        is_grep == chat_is_grep(user_message)
        response_text ==
            IF is_grep
            THEN sel.response \o "\n\nGrep results:\n" \o grep_search(PyStr(user_message))
            ELSE sel.response
    IN  [NoResp EXCEPT !.text = response_text,
            !.prompt_tokens = sum_tokens(messages),
            !.completion_tokens = estimate_tokens(PyStr(response_text)),
            !.user_message = user_message,
            !.trace = sel.response, !.searches = sel.searches, !.grep = is_grep]

\* stream_response(text, ...): the generator is created, nothing has run yet.
stream_response(text) == [phase |-> "start", words |-> Split(text), i |-> 0]

\* engine_chunk without the trailing ' '.
engine_chunk_NoSpace(words, i) ==
    Join(SubSeq(words, i + 1, IF i + chunk_size < Len(words) THEN i + chunk_size ELSE Len(words)), " ")

\* engine_chunk carrying one word less than chunk_size.
engine_chunk_Short(words, i) ==
    Join(SubSeq(words, i + 1, IF i + chunk_size - 1 < Len(words) THEN i + chunk_size - 1 ELSE Len(words)), " ") \o " "

\* One content event of the engine's stream: up to chunk_size words from
\* index i (0-based), joined by ' ', plus a trailing ' '.
engine_chunk(words, i) ==
    Join(SubSeq(words, i + 1, IF i + chunk_size < Len(words) THEN i + chunk_size ELSE Len(words)), " ") \o " "

ContentEvent(chunk) == [kind |-> "content", content |-> chunk, finish_reason |-> "null"]
FinalEvent == [kind |-> "final", content |-> "", finish_reason |-> "stop"]
DoneEvent == [kind |-> "done", content |-> "", finish_reason |-> ""]
\* The event of the except clause of generate: data: {"error": str(e)}
ErrorEvent(message) == [kind |-> "error", content |-> message, finish_reason |-> ""]
\* str(e) of an exception raised inside the body of generate (json.dumps and
\* the allocation of a chunk can raise, e.g. RecursionError or MemoryError).
GenerateExceptions == {"maximum recursion depth exceeded"}

\* time.sleep(0.05) between the events of the engine's stream
StreamDelay == Frac(5, 100)

(***************************************************************************)
(* The requests the model sends.                                           *)
(***************************************************************************)
\* Prompts of /v1/completions: absent/null, empty, blank, and texts that hit
\* each trace pattern, several patterns at once, a keyword inside a longer
\* word, upper case, and the grep categories.
CompletionPrompts == {
    PyNone, PyStr(""), PyStr("  "), PyStr("hello"),
    PyStr("Search for class definitions"),
    PyStr("find function declarations"),
    PyStr("grep for import statements"),
    PyStr("GREP"),
    PyStr("research"),
    PyStr("Debug the SEARCH"),
    PyStr("fix the bug"),
    PyStr("what is a prefix"),
    PyStr("please improve and clean"),
    PyStr("explain why")
}

\* Contents of a chat message: null, empty, plain strings and list form.
ChatContents == {
    PyNone, PyStr(""), PyStr("hello"),
    PyStr("Search for class definitions"),
    PyStr("find the bug in tests"),
    PyList(<<TextItem("grep for"), ImageItem, StrItem("import statements"),
             ContentItem("and constants")>>)
}
ChatRoles == {"user", "assistant"}
\* Contents of the messages of the other role: one that matches no pattern,
\* one that would select the grep trace.
AssistantContents == {PyStr("hello"), PyStr("Search for class definitions")}
ChatMessages ==
    {Message("user", c) : c \in ChatContents}
        \cup {Message("assistant", c) : c \in AssistantContents}

\* All sequences over S of length at most n.
SeqsUpTo(S, n) == UNION {[1..k -> S] : k \in 0..n}

EngineChatRequests ==
    {ChatReq("engine", m, st) : m \in SeqsUpTo(ChatMessages, MaxMessages), st \in BOOLEAN}

(***************************************************************************)
(* mock_engine.py: the handlers as actions.  The servers keep no state      *)
(* between requests (only the rate constants, read at request time), so a  *)
(* behaviour follows one request from its arrival to its last event.       *)
(***************************************************************************)
Idle == req = NoReq

\* POST /v1/completions
completions(r) ==
    /\ engine.up /\ Idle
    /\ req' = r
    /\ \E data \in request_json(r.body) :
          LET out == IF data.raised
                     THEN [resp |-> ErrorResp(500, data.message, NoResp), slept |-> <<>>]
                     ELSE IF data.falsy
                     THEN [resp |-> ErrorResp(400, "No JSON data provided", NoResp),
                           slept |-> <<>>]
                     ELSE timed_reply("text_completion", completions_locals(r.prompt))
          IN  resp' = out.resp /\ slept' = out.slept
    /\ gen' = NoGen
    /\ events' = <<>>
    /\ UNCHANGED <<logs, driver, call, source, engine, timing>>

\* POST /v1/chat/completions
chat_completions(r) ==
    /\ engine.up /\ Idle
    /\ req' = r
    /\ \E data \in request_json(r.body) :
          IF data.raised
          THEN /\ resp' = ErrorResp(500, data.message, NoResp)
               /\ slept' = <<>>
               /\ gen' = NoGen
          ELSE IF data.falsy
          THEN /\ resp' = ErrorResp(400, "No JSON data provided", NoResp)
               /\ slept' = <<>>
               /\ gen' = NoGen
          ELSE LET locals == chat_locals(r.messages)
                   out == timed_reply("chat.completion", locals)
               IN  IF r.stream
                   THEN /\ resp' = [locals EXCEPT !.status = 200,
                                        !.object = "text/event-stream"]
                        /\ slept' = <<>>
                        /\ gen' = stream_response(locals.text)
                   ELSE /\ resp' = out.resp
                        /\ slept' = out.slept
                        /\ gen' = NoGen
    /\ events' = <<>>
    /\ UNCHANGED <<logs, driver, call, source, engine, timing>>

\* stream_response.generate, resumed up to its next yield of a content event.
generate_chunk ==
    /\ req.server = "engine"
    /\ gen.phase \in {"start", "chunk"}
    /\ gen.i < Len(gen.words)
    /\ events' = Append(events, ContentEvent(engine_chunk(gen.words, gen.i)))
    /\ slept' = IF gen.phase = "chunk" THEN Append(slept, StreamDelay) ELSE slept
    /\ gen' = [gen EXCEPT !.phase = "chunk", !.i = gen.i + chunk_size]
    /\ UNCHANGED <<logs, driver, call, source, engine, req, resp, timing>>

\* generate_final with the loop bound off by one chunk: the final chunk is
\* yielded while the last words are still to come.
generate_final_Early ==
    /\ req.server = "engine"
    /\ gen.phase \in {"start", "chunk"}
    /\ gen.i + chunk_size >= Len(gen.words)
    /\ events' = Append(events, FinalEvent)
    /\ slept' = IF gen.phase = "chunk" THEN Append(slept, StreamDelay) ELSE slept
    /\ gen' = [gen EXCEPT !.phase = "final"]
    /\ UNCHANGED <<logs, driver, call, source, engine, req, resp, timing>>

\* ... the loop is over: the final chunk is yielded.
generate_final ==
    /\ req.server = "engine"
    /\ gen.phase \in {"start", "chunk"}
    /\ gen.i >= Len(gen.words)
    /\ events' = Append(events, FinalEvent)
    /\ slept' = IF gen.phase = "chunk" THEN Append(slept, StreamDelay) ELSE slept
    /\ gen' = [gen EXCEPT !.phase = "final"]
    /\ UNCHANGED <<logs, driver, call, source, engine, req, resp, timing>>

\* ... "data: [DONE]" is yielded.
generate_done ==
    /\ req.server = "engine"
    /\ gen.phase = "final"
    /\ events' = Append(events, DoneEvent)
    /\ gen' = [gen EXCEPT !.phase = "done"]
    /\ UNCHANGED <<logs, driver, call, source, engine, req, resp, slept, timing>>

\* ... the body of generate raises an exception before its next yield: the
\* except clause yields an error event, after the response was started with
\* status 200, and the generator returns.
generate_except ==
    /\ req.server = "engine"
    /\ gen.phase \in {"start", "chunk", "final"}
    /\ \E e \in GenerateExceptions : events' = Append(events, ErrorEvent(e))
    /\ gen' = [gen EXCEPT !.phase = "failed"]
    /\ UNCHANGED <<logs, driver, call, source, engine, req, resp, slept, timing>>

\* ... the generator returns.
generate_return ==
    /\ req.server = "engine"
    /\ gen.phase = "done"
    /\ gen' = [gen EXCEPT !.phase = "closed"]
    /\ UNCHANGED <<logs, driver, call, source, engine, req, resp, slept, events, timing>>

(***************************************************************************)
(* mock_vllm_server.py                                                     *)
(***************************************************************************)
PREFILL_TOKENS_PER_SEC == 500
DECODE_TOKENS_PER_SEC == 50
BASE_LATENCY_MS == 10

\* REASONING_TRACES["grep_search"], cut at its four placeholders {pattern},
\* {num_results}, {num_files}, {results}.
GrepSearchTemplate == <<
    "<thinking>\nTo search for patterns in the codebase, I'll use the grep function to find relevant files.\nLet me search for the term that was requested...\n</thinking>\n\nI'll search for that pattern across the codebase.\n\n<grep pattern=\"",
    "\" case_sensitive=\"false\">\nSearching recursively through project files...\n</grep>\n\nFound ",
    " matches across ",
    " files:\n",
    "\n">>

\* REASONING_TRACES["code_analysis"], cut at {topic}, {analysis}, {findings}.
CodeAnalysisTemplate == <<
    "<thinking>\nAnalyzing the code structure to understand the implementation...\nThe pattern suggests this is related to ",
    ".\nLet me examine the relevant sections...\n</thinking>\n\nBased on my analysis:\n\n",
    "\n\nThe key findings are:\n",
    "\n">>

\* REASONING_TRACES["default"], cut at {response}.
DefaultTemplate == <<
    "<thinking>\nProcessing the request...\nUnderstanding the context and requirements...\nFormulating a response...\n</thinking>\n\n",
    "\n">>

VLLM_GREP_RESPONSES == <<
    "src/core/engine.ts:45:    async function executeGrep(pattern: string) {",
    "src/utils/search.ts:12:    // Grep implementation for pattern matching",
    "tests/grep.test.ts:8:    describe('grep functionality', () => {",
    "lib/tools/grep.ts:23:    export const grepTool = createTool('grep', async (args) => {",
    "docs/api.md:156:### Grep Tool">>

CODE_ANALYSIS_FINDINGS == <<
    "- The implementation uses a recursive tree-walking algorithm",
    "- Pattern matching is handled by the regex engine with Unicode support",
    "- Results are cached to improve subsequent search performance",
    "- The system supports both case-sensitive and case-insensitive searches">>

\* count_tokens(text)
count_tokens(text) == Len(text) \div 4

\* word.strip('",.:;')
StripSet == {"\"", ",", ".", ":", ";"}
strip(word) ==
    IF \A j \in 1..Len(word) : Char(word, j) \in StripSet THEN ""
    ELSE LET a == CHOOSE j \in 1..Len(word) :
                    /\ Char(word, j) \notin StripSet
                    /\ \A k \in 1..(j - 1) : Char(word, k) \in StripSet
             b == CHOOSE j \in 1..Len(word) :
                    /\ Char(word, j) \notin StripSet
                    /\ \A k \in (j + 1)..Len(word) : Char(word, k) \in StripSet
         IN  SubSeq(word, a, b)

\* The outcomes of the three draws of generate_grep_response that the model
\* explores: num_results = random.randint(3, 7), the order of
\* random.sample(GREP_RESPONSES, min(num_results, 5)) as indices, and
\* num_files = random.randint(2, 5).  Draw number d takes the d-th value of
\* each range (cyclically) and the sample that starts at the d-th line.
Min(a, b) == IF a <= b THEN a ELSE b
RandomDraw(d) ==
    LET num_results == 3 + (d % 5)
    IN  [num_results |-> num_results,
         sample |-> [j \in 1..Min(num_results, Len(VLLM_GREP_RESPONSES)) |->
                        ((d + j - 1) % Len(VLLM_GREP_RESPONSES)) + 1],
         num_files |-> 2 + (d % 4)]
RandomDraws == {RandomDraw(d) : d \in 0..MaxDraw}

\* The search pattern generate_grep_response extracts from the message.
grep_pattern(user_message) ==
    LET words == Split(user_message)
        hit(i) == Lower(words[i]) \in {"for", "search", "find"} /\ i < Len(words)
    IN  IF /\ \/ Contains(Lower(user_message), "search")
              \/ Contains(Lower(user_message), "find")
           /\ \E i \in 1..Len(words) : hit(i)
        THEN strip(words[(CHOOSE i \in 1..Len(words) :
                            hit(i) /\ \A k \in 1..(i - 1) : ~hit(k)) + 1])
        ELSE "function"

\* generate_grep_response(user_message), for the random draws rnd.
generate_grep_response(user_message, rnd) ==
    LET results == Join([i \in 1..Len(rnd.sample) |->
                            "  " \o ToString(i) \o ". " \o VLLM_GREP_RESPONSES[rnd.sample[i]]],
                        "\n")
    IN  GrepSearchTemplate[1] \o grep_pattern(user_message)
            \o GrepSearchTemplate[2] \o ToString(rnd.num_results)
            \o GrepSearchTemplate[3] \o ToString(rnd.num_files)
            \o GrepSearchTemplate[4] \o results
            \o GrepSearchTemplate[5]

\* generate_code_analysis(user_message)
generate_code_analysis(user_message) ==
    CodeAnalysisTemplate[1] \o "pattern matching and search functionality"
        \o CodeAnalysisTemplate[2]
        \o "The codebase implements a sophisticated search system with multiple optimization layers."
        \o CodeAnalysisTemplate[3] \o Join(CODE_ANALYSIS_FINDINGS, "\n")
        \o CodeAnalysisTemplate[4]

\* The default reply of generate_response, quoting content[:100].
vllm_default_response(content) ==
    DefaultTemplate[1] \o "I understand you're asking about: "
        \o SubSeq(content, 1, Min(100, Len(content)))
        \o "...\n\nLet me help with that." \o DefaultTemplate[2]

\* Which branch generate_response takes for the last message's text.
vllm_branch(content) ==
    LET last_message == Lower(content)
    IN  IF \E w \in {"grep", "search", "find", "pattern"} : Contains(last_message, w)
        THEN "grep_search"
        ELSE IF \E w \in {"analyze", "explain", "code", "implementation"} :
                    Contains(last_message, w)
        THEN "code_analysis"
        ELSE "default"

\* generate_response(messages): messages[-1] raises IndexError on an empty
\* list; otherwise the text, for the random draws rnd.
generate_response(messages, rnd) ==
    IF messages = <<>>
    THEN [raised |-> TRUE, text |-> "", branch |-> ""]
    ELSE LET content == messages[Len(messages)].content.s
             branch == vllm_branch(content)
         IN  [raised |-> FALSE, branch |-> branch,
              text |-> CASE branch = "grep_search" -> generate_grep_response(content, rnd)
                         [] branch = "code_analysis" -> generate_code_analysis(content)
                         [] OTHER -> vllm_default_response(content)]

\* simulate_generation_timing(prompt_tokens, completion_tokens): the three
\* asyncio.sleep calls it awaits, in order.
simulate_generation_timing(prompt_tokens, completion_tokens) ==
    <<Frac(BASE_LATENCY_MS, 1000),
      Frac(prompt_tokens, PREFILL_TOKENS_PER_SEC),
      Frac(completion_tokens, DECODE_TOKENS_PER_SEC)>>

\* The requests sent to mock_vllm_server: pydantic admits only messages whose
\* role and content are strings (the list may be empty).
VllmContents == {PyStr("hello"), PyStr("Find \"class\", please"), PyStr("explain the code")}
VllmMessages == {Message(r, c) : r \in ChatRoles, c \in VllmContents}
VllmChatRequests ==
    {ChatReq("vllm", m, st) : m \in SeqsUpTo(VllmMessages, MaxMessages), st \in BOOLEAN}

\* POST /v1/chat/completions of mock_vllm_server.  An exception of the
\* handler is answered by FastAPI with status 500.
vllm_chat_completions(r, rnd) ==
    /\ Idle
    /\ req' = r
    /\ LET prompt_text == Join([i \in 1..Len(r.messages) |-> r.messages[i].content.s], "\n")
           prompt_tokens == count_tokens(prompt_text)
           response == generate_response(r.messages, rnd)
           completion_tokens == count_tokens(response.text)
           locals == [NoResp EXCEPT !.text = response.text,
                         !.prompt_tokens = prompt_tokens,
                         !.completion_tokens = completion_tokens,
                         !.total_tokens = prompt_tokens + completion_tokens,
                         !.trace = response.branch,
                         !.user_message = IF r.messages = <<>> THEN ""
                                          ELSE r.messages[Len(r.messages)].content.s]
       IN  IF response.raised
           THEN /\ resp' = ErrorResp(500, "Internal Server Error", NoResp)
                /\ slept' = <<>>
                /\ gen' = NoGen
           ELSE /\ slept' = simulate_generation_timing(prompt_tokens, completion_tokens)
                /\ IF r.stream
                   THEN /\ resp' = [locals EXCEPT !.status = 200,
                                        !.object = "text/event-stream"]
                        /\ gen' = [phase |-> "start", words |-> Split(response.text), i |-> 0]
                   ELSE /\ resp' = [locals EXCEPT !.status = 200,
                                        !.object = "chat.completion"]
                        /\ gen' = NoGen
    /\ events' = <<>>
    /\ UNCHANGED <<logs, driver, call, source, engine, timing>>

\* asyncio.sleep(1.0 / DECODE_TOKENS_PER_SEC) after each word of the stream
WordDelay == Frac(1, DECODE_TOKENS_PER_SEC)

\* generate_stream, resumed up to its next yield of a word.
generate_stream_word ==
    /\ req.server = "vllm"
    /\ gen.phase \in {"start", "chunk"}
    /\ gen.i < Len(gen.words)
    /\ events' = Append(events, ContentEvent(gen.words[gen.i + 1] \o " "))
    /\ slept' = IF gen.phase = "chunk" THEN Append(slept, WordDelay) ELSE slept
    /\ gen' = [gen EXCEPT !.phase = "chunk", !.i = gen.i + 1]
    /\ UNCHANGED <<logs, driver, call, source, engine, req, resp, timing>>

\* ... the loop is over: the final chunk is yielded.
generate_stream_final ==
    /\ req.server = "vllm"
    /\ gen.phase \in {"start", "chunk"}
    /\ gen.i >= Len(gen.words)
    /\ events' = Append(events, FinalEvent)
    /\ slept' = IF gen.phase = "chunk" THEN Append(slept, WordDelay) ELSE slept
    /\ gen' = [gen EXCEPT !.phase = "final"]
    /\ UNCHANGED <<logs, driver, call, source, engine, req, resp, timing>>

\* ... "data: [DONE]" is yielded.
generate_stream_done ==
    /\ req.server = "vllm"
    /\ gen.phase = "final"
    /\ events' = Append(events, DoneEvent)
    /\ gen' = [gen EXCEPT !.phase = "done"]
    /\ UNCHANGED <<logs, driver, call, source, engine, req, resp, slept, timing>>

\* ... the generator returns.
generate_stream_return ==
    /\ req.server = "vllm"
    /\ gen.phase = "done"
    /\ gen' = [gen EXCEPT !.phase = "closed"]
    /\ UNCHANGED <<logs, driver, call, source, engine, req, resp, slept, events, timing>>

(***************************************************************************)
(* The configuration step of the drivers, and the (re)start of the server. *)
(***************************************************************************)
\* benchmark.py / benchmark_with_logs.py main: update_mock_engine_speeds(...)
\* rewrites the file for one of the driver's configurations.
driver_update_speeds(config) ==
    /\ Idle
    /\ source' = update_mock_engine_speeds(source, config.prefill, config.decode)
    /\ UNCHANGED <<logs, driver, call, engine, req, resp, slept, gen, events, timing>>

\* benchmark_grep.py main: update_mock_engine_speed(speed) rewrites the file.
driver_update_speed(tokens_per_sec) ==
    /\ Idle
    /\ source' = update_mock_engine_speed(source, tokens_per_sec)
    /\ UNCHANGED <<logs, driver, call, engine, req, resp, slept, gen, events, timing>>

\* The server is restarted (by the operator, or by stop_mock_server and
\* start_mock_server): python mock_engine.py reads the file as it is now.
restart_engine ==
    /\ Idle
    /\ engine' = start_engine(source)
    /\ UNCHANGED <<logs, driver, call, source, req, resp, slept, gen, events, timing>>

\* The requests sent to a reconfigured server.
ConfigPrompts == {PyStr("hello"), PyStr("Search for class definitions"), PyNone}
ConfigChatRequests ==
    {ChatReq("engine", <<Message("user", c)>>, st) :
        c \in {PyStr("hello"), PyStr("find the bug in tests")}, st \in BOOLEAN}

NextConfig ==
    \/ \E i \in 1..Len(TOKEN_CONFIGS) : driver_update_speeds(TOKEN_CONFIGS[i])
    \/ \E t \in SpeedInputs : driver_update_speed(t)
    \/ restart_engine
    \/ \E p \in ConfigPrompts : completions(CompletionReq(p))
    \/ \E r \in ConfigChatRequests : chat_completions(r)
    \/ generate_chunk
    \/ generate_final
    \/ generate_done
    \/ generate_except
    \/ generate_return

(***************************************************************************)
(* The benchmark drivers: the sweep of main over the configurations, the   *)
(* suite of queries run for each, and the statistics and report computed   *)
(* from the results.  The external CLI (qwen, qwen-code) is the            *)
(* environment: an invocation ends with an exit code after some time, runs *)
(* into the timeout of subprocess.run, or cannot be started.               *)
(***************************************************************************)
\* timeout=30 of subprocess.run, in seconds
TIMEOUT == 30
\* the queries of a suite: num_queries=10 (benchmark.py), the 10 entries of
\* GREP_QUERIES (benchmark_grep.py), num_queries=5 (benchmark_with_logs.py)
benchmark_num_queries == 10
grep_len_GREP_QUERIES == 10
logs_num_queries == 5

Variants == {"benchmark", "benchmark_grep", "benchmark_with_logs"}

\* The queries a suite runs and the configurations a sweep covers, cut to
\* the bounds of the model.
QueryCount(variant) ==
    Min(MaxQueries,
        CASE variant = "benchmark" -> benchmark_num_queries
          [] variant = "benchmark_grep" -> grep_len_GREP_QUERIES
          [] OTHER -> logs_num_queries)
ConfigCount(variant) ==
    Min(MaxConfigs,
        IF variant = "benchmark_grep" THEN Len(TOKEN_SPEEDS_TO_TEST)
        ELSE Len(TOKEN_CONFIGS))

\* What an invocation of the CLI can do: exit with a return code after
\* elapsed seconds, be killed when the timeout expires (the wall time
\* measured around the call is then above the timeout), or fail to start
\* (FileNotFoundError and the like, after next to no time).
CliOutcomes == {
    [kind |-> "exit", returncode |-> 0, elapsed |-> Frac(1, 1)],
    [kind |-> "exit", returncode |-> 0, elapsed |-> Frac(3, 1)],
    [kind |-> "exit", returncode |-> 1, elapsed |-> Frac(1, 1)],
    [kind |-> "timeout", returncode |-> 0, elapsed |-> Frac(10 * TIMEOUT + 1, 10)],
    [kind |-> "oserror", returncode |-> 0, elapsed |-> Frac(1, 100)]
}
\* str(e) of the exception of an invocation that could not start
OSErrorMessage == "[Errno 2] No such file or directory"

\* benchmark.py, run_grep_query: the result record of one query (time is
\* the field "time").
benchmark_run_grep_query(o) ==
    CASE o.kind = "exit" ->
            [success |-> o.returncode = 0, time |-> o.elapsed, error |-> ""]
      [] o.kind = "timeout" ->
            [success |-> FALSE, time |-> Frac(TIMEOUT, 1), error |-> "timeout"]
      [] OTHER ->
            [success |-> FALSE, time |-> Frac(0, 1), error |-> OSErrorMessage]

\* benchmark_grep.py, run_grep_query (time is the field "elapsed_time",
\* measured in all three branches).
grep_run_grep_query(o) ==
    CASE o.kind = "exit" ->
            [success |-> o.returncode = 0, time |-> o.elapsed, error |-> ""]
      [] o.kind = "timeout" ->
            [success |-> FALSE, time |-> o.elapsed, error |-> "timeout"]
      [] OTHER ->
            [success |-> FALSE, time |-> o.elapsed, error |-> OSErrorMessage]

\* The lines the server's output can put into mock_engine.log: one that
\* reports a response time and one that does not.
LogTexts == {"Response sent in 0.500s", "POST /v1/chat/completions 200"}

\* A line of the log: its text and, as a record of where it came from, the
\* configuration and the query that was being served when it was written.
LogLine(text, config, query) == [text |-> text, serving |-> <<config, query>>]

IsNumChar(c) == IsDigit(c) \/ c = "."
\* Index after the run of digits and dots of s that starts at i.
NumEnd(s, i) ==
    IF \E j \in i..Len(s) : ~IsNumChar(Char(s, j))
    THEN CHOOSE j \in i..Len(s) :
            /\ ~IsNumChar(Char(s, j))
            /\ \A k \in i..(j - 1) : IsNumChar(Char(s, k))
    ELSE Len(s) + 1

\* re.search(r'Response sent in ([\d.]+)s', line): group 1 of the leftmost
\* match, "" without a match.  The greedy run of digits and dots has to be
\* followed by the letter s.
response_sent_in(line) ==
    LET lit == "Response sent in "
        at(p) == /\ SubSeq(line, p, p + Len(lit) - 1) = lit
                 /\ NumEnd(line, p + Len(lit)) > p + Len(lit)
                 /\ Char(line, NumEnd(line, p + Len(lit))) = "s"
        ps == {p \in 1..(Len(line) - Len(lit)) : at(p)}
    IN  IF ps = {} THEN ""
        ELSE LET p == CHOOSE q \in ps : \A r \in ps : q <= r
             IN  SubSeq(line, p + Len(lit), NumEnd(line, p + Len(lit)) - 1)

RECURSIVE Pow10(_)
Pow10(k) == IF k = 0 THEN 1 ELSE 10 * Pow10(k - 1)

\* float(t) for a string of digits and dots: ValueError unless there is at
\* most one dot and at least one digit.
parse_float(t) ==
    LET dots == {i \in 1..Len(t) : Char(t, i) = "."}
    IN  IF Cardinality(dots) > 1 \/ Cardinality(dots) = Len(t)
        THEN [raised |-> TRUE, value |-> Frac(0, 1)]
        ELSE IF dots = {}
        THEN [raised |-> FALSE, value |-> Frac(ParseDigits(t, Len(t)), 1)]
        ELSE LET d == CHOOSE i \in dots : TRUE
                 whole == SubSeq(t, 1, d - 1)
                 frac == SubSeq(t, d + 1, Len(t))
             IN  [raised |-> FALSE,
                  value |-> Frac(ParseDigits(whole, Len(whole)) * Pow10(Len(frac))
                                    + ParseDigits(frac, Len(frac)),
                                 Pow10(Len(frac)))]

\* extract_api_time_from_logs with 0.0 in place of None when no line matches.
extract_api_time_from_logs_Zero(lines) ==
    LET ms == {i \in DOMAIN lines : response_sent_in(lines[i].text) # ""}
    IN  IF ms = {}
        THEN [raised |-> FALSE, api_time |-> <<Frac(0, 1)>>, api_of |-> <<>>]
        ELSE LET i == CHOOSE m \in ms : \A k \in ms : k <= m
                 f == parse_float(response_sent_in(lines[i].text))
             IN  [raised |-> f.raised,
                  api_time |-> IF f.raised THEN <<>> ELSE <<f.value>>,
                  api_of |-> lines[i].serving]

\* extract_api_time_from_logs, given the lines drained from log_queue: the
\* time of the last line that reports one (api_time is <<>> for None, <<t>>
\* for the float t), and the query that line was written for.
extract_api_time_from_logs(lines) ==
    LET ms == {i \in DOMAIN lines : response_sent_in(lines[i].text) # ""}
    IN  IF ms = {}
        THEN [raised |-> FALSE, api_time |-> <<>>, api_of |-> <<>>]
        ELSE LET i == CHOOSE m \in ms : \A k \in ms : k <= m
                 f == parse_float(response_sent_in(lines[i].text))
             IN  [raised |-> f.raised,
                  api_time |-> IF f.raised THEN <<>> ELSE <<f.value>>,
                  api_of |-> lines[i].serving]

\* qwen_time - api_time (it is negative when the reported time is larger)
FracSub(a, b) == Frac(a.n * b.d - b.n * a.d, a.d * b.d)
ValueErrorMessage == "could not convert string to float"

\* benchmark_with_logs.py, run_qwen_query (time is the field "qwen_time"),
\* given the lines extract_api_time_from_logs drains when it is called.
\* overhead is None when api_time is None or 0.0.  A ValueError of float()
\* is caught by the last except clause.
run_qwen_query(o, lines) ==
    CASE o.kind = "exit" ->
            LET x == extract_api_time_from_logs(lines)
            IN  IF x.raised
                THEN [success |-> FALSE, time |-> Frac(0, 1), error |-> ValueErrorMessage,
                      api_time |-> <<>>, overhead |-> <<>>, api_of |-> <<>>]
                ELSE [success |-> o.returncode = 0, time |-> o.elapsed, error |-> "",
                      api_time |-> x.api_time,
                      overhead |-> IF x.api_time # <<>> /\ x.api_time[1].n # 0
                                   THEN <<FracSub(o.elapsed, x.api_time[1])>> ELSE <<>>,
                      api_of |-> x.api_of]
      [] o.kind = "timeout" ->
            [success |-> FALSE, time |-> Frac(TIMEOUT, 1), error |-> "timeout",
             api_time |-> <<>>, overhead |-> <<>>, api_of |-> <<>>]
      [] OTHER ->
            [success |-> FALSE, time |-> Frac(0, 1), error |-> OSErrorMessage,
             api_time |-> <<>>, overhead |-> <<>>, api_of |-> <<>>]

run_query(variant, o, lines) ==
    CASE variant = "benchmark" -> benchmark_run_grep_query(o)
      [] variant = "benchmark_grep" -> grep_run_grep_query(o)
      [] OTHER -> run_qwen_query(o, lines)

\* The loop over the queries with a retry of a failed query.
next_query_Retry(query, result) == IF result.success THEN query + 1 ELSE query

\* for i, query in enumerate(GREP_QUERIES...): the query after this one,
\* whatever its result.
next_query(query, result) == query + 1

\* times = [r["time"] for r in results if r["success"]]
RECURSIVE success_times(_)
success_times(results) ==
    IF results = <<>> THEN <<>>
    ELSE (IF Head(results).success THEN <<Head(results).time>> ELSE <<>>)
            \o success_times(Tail(results))

\* min(times) and max(times) of a non-empty list
RECURSIVE FracMinSeq(_)
FracMinSeq(fs) ==
    IF Len(fs) = 1 THEN fs[1] ELSE FracMin(Head(fs), FracMinSeq(Tail(fs)))
RECURSIVE FracMaxSeq(_)
FracMaxSeq(fs) ==
    IF Len(fs) = 1 THEN fs[1]
    ELSE LET m == FracMaxSeq(Tail(fs)) IN IF FracLeq(m, Head(fs)) THEN Head(fs) ELSE m

\* A statistics record.  Each variant fills the fields it computes: error is
\* "" unless the variant reports a configuration without successes by an
\* error entry (benchmark_grep.py) or by None (benchmark_with_logs.py).
ZeroStats == [error |-> "", avg |-> Frac(0, 1), min |-> Frac(0, 1), max |-> Frac(0, 1),
              total |-> Frac(0, 1), success_rate |-> Frac(0, 1),
              total_queries |-> 0, successful_queries |-> 0, failed_queries |-> 0,
              api |-> <<>>, overhead |-> <<>>]

\* calculate_stats with the average taken over all results.
calculate_stats_AllResults(results) ==
    LET times == success_times(results)
    IN  IF times = <<>> THEN ZeroStats
        ELSE [ZeroStats EXCEPT
                !.avg = FracDiv(FracSum(times), Frac(Len(results), 1)),
                !.min = FracMinSeq(times),
                !.max = FracMaxSeq(times),
                !.total = FracSum(times),
                !.success_rate = Frac(100 * Len(times), Len(results))]

\* benchmark.py, calculate_stats
calculate_stats(results) ==
    LET times == success_times(results)
    IN  IF times = <<>> THEN ZeroStats
        ELSE [ZeroStats EXCEPT
                !.avg = FracDiv(FracSum(times), Frac(Len(times), 1)),
                !.min = FracMinSeq(times),
                !.max = FracMaxSeq(times),
                !.total = FracSum(times),
                !.success_rate = Frac(100 * Len(times), Len(results))]

\* benchmark_grep.py, run_benchmark_suite after its loop: the statistics of
\* the suite (median, stddev, queries_per_minute and the copy of the
\* individual results are left out); total_queries is len(GREP_QUERIES).
suite_statistics(results, total_queries) ==
    LET times == success_times(results)
    IN  IF times = <<>>
        THEN [ZeroStats EXCEPT !.error = "All queries failed",
                !.total_queries = total_queries, !.failed_queries = total_queries]
        ELSE [ZeroStats EXCEPT
                !.total_queries = total_queries,
                !.successful_queries = Len(times),
                !.failed_queries = total_queries - Len(times),
                !.total = FracSum(times),
                !.avg = FracDiv(FracSum(times), Frac(Len(times), 1)),
                !.min = FracMinSeq(times),
                !.max = FracMaxSeq(times)]

\* [r[field] for r in results if r["success"] and r[field]]: the values of
\* the successful results that are neither None nor 0.0
RECURSIVE truthy_times(_, _)
truthy_times(results, field) ==
    IF results = <<>> THEN <<>>
    ELSE (IF Head(results).success /\ Head(results)[field] # <<>>
             /\ Head(results)[field][1].n # 0
          THEN Head(results)[field] ELSE <<>>)
            \o truthy_times(Tail(results), field)

\* benchmark_with_logs.py, calculate_stats: None without a success, else the
\* "qwen" entry, and the "api" and "overhead" entries (their averages, <<>>
\* for an entry that is left out) when some result has such a time.
logs_calculate_stats(results) ==
    LET times == success_times(results)
        api_times == truthy_times(results, "api_time")
        overhead_times == truthy_times(results, "overhead")
    IN  IF times = <<>> THEN [ZeroStats EXCEPT !.error = "None"]
        ELSE [ZeroStats EXCEPT
                !.avg = FracDiv(FracSum(times), Frac(Len(times), 1)),
                !.total = FracSum(times),
                !.api = IF api_times = <<>> THEN <<>>
                        ELSE <<FracDiv(FracSum(api_times), Frac(Len(api_times), 1))>>,
                !.overhead = IF overhead_times = <<>> THEN <<>>
                             ELSE <<FracDiv(FracSum(overhead_times),
                                            Frac(Len(overhead_times), 1))>>]

stats_of(variant, results) ==
    CASE variant = "benchmark" -> calculate_stats(results)
      [] variant = "benchmark_grep" -> suite_statistics(results, QueryCount(variant))
      [] OTHER -> logs_calculate_stats(results)

\* min(all_results, key=avg) and max(all_results, key=avg) over the entries
\* idx: Python returns the first of equal candidates.
FirstMin(all_results, idx) ==
    CHOOSE i \in idx :
        /\ \A j \in idx : FracLeq(all_results[i].avg, all_results[j].avg)
        /\ \A j \in idx : j < i => FracLess(all_results[i].avg, all_results[j].avg)
FirstMax(all_results, idx) ==
    CHOOSE i \in idx :
        /\ \A j \in idx : FracLeq(all_results[j].avg, all_results[i].avg)
        /\ \A j \in idx : j < i => FracLess(all_results[j].avg, all_results[i].avg)

\* What the report named: the entries it called fastest and slowest (0: not
\* named), the speedup, and whether the function raised.
NoReport == [printed |-> FALSE, raised |-> FALSE, fastest |-> 0, slowest |-> 0,
             speedup |-> Frac(0, 1)]

\* benchmark.py, print_comparison: the fastest entry is printed, then the
\* division slowest avg / fastest avg raises ZeroDivisionError when the
\* fastest average is 0.
print_comparison(all_results) ==
    LET fastest == FirstMin(all_results, DOMAIN all_results)
        slowest == FirstMax(all_results, DOMAIN all_results)
    IN  IF all_results[fastest].avg.n = 0
        THEN [NoReport EXCEPT !.raised = TRUE, !.fastest = fastest, !.slowest = slowest]
        ELSE [NoReport EXCEPT !.printed = TRUE, !.fastest = fastest, !.slowest = slowest,
                !.speedup = FracDiv(all_results[slowest].avg, all_results[fastest].avg)]

\* benchmark_grep.py, print_summary: the entries without an error, and the
\* one of them with the lowest average.
print_summary(all_results) ==
    LET valid_results == {i \in DOMAIN all_results : all_results[i].error = ""}
    IN  IF valid_results = {} THEN [NoReport EXCEPT !.printed = TRUE]
        ELSE [NoReport EXCEPT !.printed = TRUE,
                !.fastest = FirstMin(all_results, valid_results)]

\* benchmark_with_logs.py, print_comparison: the table of the entries with
\* "api" statistics reads stats["overhead"] (KeyError when that entry is left
\* out); with two such entries or more the one of the lowest and the one of
\* the highest api average are named and the api speedup is their quotient.
logs_print_comparison(all_results) ==
    LET api_results == {i \in DOMAIN all_results :
                            all_results[i].error = "" /\ all_results[i].api # <<>>}
        key == [i \in DOMAIN all_results |->
                    [avg |-> IF i \in api_results THEN all_results[i].api[1]
                             ELSE Frac(0, 1)]]
    IN  IF \E i \in api_results : all_results[i].overhead = <<>>
        THEN [NoReport EXCEPT !.raised = TRUE]
        ELSE IF Cardinality(api_results) < 2
        THEN [NoReport EXCEPT !.printed = TRUE]
        ELSE LET fastest == FirstMin(key, api_results)
                 slowest == FirstMax(key, api_results)
             IN  [NoReport EXCEPT !.printed = TRUE, !.fastest = fastest,
                    !.slowest = slowest,
                    !.speedup = FracDiv(key[slowest].avg, key[fastest].avg)]

report_of(variant, all_results) ==
    CASE variant = "benchmark" -> print_comparison(all_results)
      [] variant = "benchmark_grep" -> print_summary(all_results)
      [] OTHER -> logs_print_comparison(all_results)

\* The driver process: the variant that runs, its position (pc), the index
\* of the configuration and of the query, the CLI processes in flight, the
\* outcome of a CLI process whose result is not recorded yet (pending), the
\* queries invoked and the results of the current suite, the statistics of
\* the finished suites, the report, whether the results file is written,
\* the server subprocesses started (servers, each alive or stopped) and the
\* one main holds in server_process (0 for None), how main ended (exit), and
\* the steps of the sweep in the order they happened (history).
NoOutcome == [kind |-> "none", returncode |-> 0, elapsed |-> Frac(0, 1)]
NoDriver == [variant |-> "none", pc |-> "off", config |-> 0, query |-> 0,
             inflight |-> 0, pending |-> NoOutcome, invoked |-> <<>>, results |-> <<>>,
             all_results |-> <<>>, report |-> NoReport, saved |-> FALSE,
             servers |-> <<>>, server_process |-> 0, exit |-> "",
             history |-> <<>>]

\* A direct call of a pure function of the drivers or of the engine.
NoCall == [fn |-> "none", results |-> <<>>, stats |-> ZeroStats,
           query |-> PyNone, text |-> ""]

\* The log side channel of benchmark_with_logs.py: whether mock_engine.log
\* can be opened, the state of the tailer thread, the lines of the file
\* beyond the offset of the tailer (unread), the number of lines written to
\* the file so far, and log_queue.
NoLogs == [file |-> "absent", tailer |-> "off", unread |-> <<>>, written |-> 0,
           queue |-> <<>>]

\* A step of the sweep, as recorded in history.
Step(ev, config, query) == [ev |-> ev, config |-> config, query |-> query]

\* main: the rate constants of the next configuration are written.
main_configure ==
    /\ driver.pc = "configure"
    /\ source' = IF driver.variant = "benchmark_grep"
                 THEN update_mock_engine_speed(source, TOKEN_SPEEDS_TO_TEST[driver.config])
                 ELSE update_mock_engine_speeds(source,
                          TOKEN_CONFIGS[driver.config].prefill,
                          TOKEN_CONFIGS[driver.config].decode)
    /\ driver' = [driver EXCEPT !.pc = "restart",
                     !.history = Append(driver.history, Step("write", driver.config, 0))]
    /\ UNCHANGED <<engine, req, resp, slept, gen, events, timing, call, logs>>

\* main of benchmark.py and benchmark_with_logs.py: input() returns, the
\* operator having restarted the server on the rewritten file, and the suite
\* begins with an empty list of results.
main_restart ==
    /\ driver.pc = "restart"
    /\ driver.variant # "benchmark_grep"
    /\ engine' = start_engine(source)
    /\ driver' = [driver EXCEPT !.pc = "query", !.query = 1,
                     !.results = <<>>, !.invoked = <<>>,
                     !.history = Append(driver.history, Step("restart", driver.config, 0))]
    /\ UNCHANGED <<source, req, resp, slept, gen, events, timing, call, logs>>

\* stop_mock_server(process): terminate() and wait().
stop_mock_server(servers, process) ==
    IF process = 0 THEN servers ELSE [servers EXCEPT ![process] = "stopped"]

\* main of benchmark_grep.py: if server_process: stop_mock_server(server_process)
main_stop_server ==
    /\ driver.pc = "restart"
    /\ driver.variant = "benchmark_grep"
    /\ driver' = [driver EXCEPT !.pc = "popen",
                     !.servers = stop_mock_server(driver.servers, driver.server_process)]
    /\ UNCHANGED <<source, engine, req, resp, slept, gen, events, timing, call, logs>>

\* start_mock_server: subprocess.Popen(['python', 'mock_engine.py']) starts
\* the server on the rewritten file; the function then sleeps for 2 seconds.
start_mock_server_popen ==
    /\ driver.pc = "popen"
    /\ engine' = start_engine(source)
    /\ driver' = [driver EXCEPT !.pc = "starting",
                     !.servers = Append(driver.servers, "alive")]
    /\ UNCHANGED <<source, req, resp, slept, gen, events, timing, call, logs>>

\* ... start_mock_server returns the process, main assigns it to
\* server_process and the suite begins with an empty list of results.
start_mock_server_return ==
    /\ driver.pc = "starting"
    /\ driver' = [driver EXCEPT !.pc = "query", !.query = 1,
                     !.server_process = Len(driver.servers),
                     !.results = <<>>, !.invoked = <<>>,
                     !.history = Append(driver.history, Step("restart", driver.config, 0))]
    /\ UNCHANGED <<source, engine, req, resp, slept, gen, events, timing, call, logs>>

\* run_query_start issuing the first query while the restart is still due.
run_query_start_BeforeRestart ==
    /\ driver.pc \in {"query", "restart"}
    /\ driver.query <= QueryCount(driver.variant)
    /\ driver' = [driver EXCEPT !.pc = "wait",
                     !.inflight = driver.inflight + 1,
                     !.invoked = Append(driver.invoked, driver.query),
                     !.history = Append(driver.history,
                                        Step("issue", driver.config, driver.query))]
    /\ UNCHANGED <<source, engine, req, resp, slept, gen, events, timing, call, logs>>

\* run_grep_query / run_qwen_query: subprocess.run starts the CLI for the
\* next query of the list.
run_query_start ==
    /\ driver.pc = "query"
    /\ driver.query <= QueryCount(driver.variant)
    /\ driver' = [driver EXCEPT !.pc = "wait",
                     !.inflight = driver.inflight + 1,
                     !.invoked = Append(driver.invoked, driver.query),
                     !.history = Append(driver.history,
                                        Step("issue", driver.config, driver.query))]
    /\ UNCHANGED <<source, engine, req, resp, slept, gen, events, timing, call, logs>>

\* ... subprocess.run returns or raises.  The result is appended and the
\* loop goes on, except in run_qwen_query after a return of the CLI, which
\* sleeps for 0.1 seconds before it reads log_queue.
run_query_end(o) ==
    /\ driver.pc = "wait"
    /\ IF driver.variant = "benchmark_with_logs" /\ o.kind = "exit"
       THEN driver' = [driver EXCEPT !.pc = "extract",
                          !.inflight = driver.inflight - 1,
                          !.pending = o,
                          !.history = Append(driver.history,
                                             Step("finish", driver.config, driver.query))]
       ELSE LET result == run_query(driver.variant, o, <<>>)
            IN  driver' = [driver EXCEPT !.pc = "query",
                              !.inflight = driver.inflight - 1,
                              !.results = Append(driver.results, result),
                              !.query = next_query(driver.query, result),
                              !.history = Append(driver.history,
                                              Step("finish", driver.config, driver.query))]
    /\ UNCHANGED <<source, engine, req, resp, slept, gen, events, timing, call, logs>>

\* run_qwen_query after its sleep: extract_api_time_from_logs drains
\* log_queue, and the result is appended.
run_qwen_query_extract ==
    /\ driver.pc = "extract"
    /\ LET result == run_query(driver.variant, driver.pending, logs.queue)
       IN  driver' = [driver EXCEPT !.pc = "query",
                         !.pending = NoOutcome,
                         !.results = Append(driver.results, result),
                         !.query = next_query(driver.query, result)]
    /\ logs' = [logs EXCEPT !.queue = <<>>]
    /\ UNCHANGED <<source, engine, req, resp, slept, gen, events, timing, call>>

\* tail_mock_engine_logs, started as a daemon thread by main: open() and
\* seek to the end of the file, past the lines it holds; an exception of
\* open() ends the thread.
tail_open ==
    /\ logs.tailer = "started"
    /\ logs' = IF logs.file = "present"
               THEN [logs EXCEPT !.tailer = "running", !.unread = <<>>]
               ELSE [logs EXCEPT !.tailer = "ended"]
    /\ UNCHANGED <<source, engine, req, resp, slept, gen, events, timing, driver, call>>

\* ... one round of its loop that reads a line: the line goes into
\* log_queue (the lines of the model carry no surrounding whitespace for
\* strip() to remove).
tail_readline ==
    /\ logs.tailer = "running"
    /\ logs.unread # <<>>
    /\ logs' = [logs EXCEPT !.unread = Tail(logs.unread),
                   !.queue = Append(logs.queue, Head(logs.unread))]
    /\ UNCHANGED <<source, engine, req, resp, slept, gen, events, timing, driver, call>>

\* The server, while it serves the request of the query in flight, has a
\* line of its output reach mock_engine.log.
server_log(text) ==
    /\ driver.variant = "benchmark_with_logs"
    /\ driver.pc = "wait"
    /\ logs.file = "present"
    /\ logs.written < MaxLogLines
    /\ logs' = [logs EXCEPT
                   !.unread = Append(logs.unread, LogLine(text, driver.config, driver.query)),
                   !.written = logs.written + 1]
    /\ UNCHANGED <<source, engine, req, resp, slept, gen, events, timing, driver, call>>

\* The suite is over: its statistics are computed and stored, and main goes
\* to the next configuration or to the report.
suite_end ==
    /\ driver.pc = "query"
    /\ driver.query > QueryCount(driver.variant)
    /\ driver' = [driver EXCEPT
                     !.all_results = Append(driver.all_results,
                                        stats_of(driver.variant, driver.results)),
                     !.config = IF driver.config < ConfigCount(driver.variant)
                                THEN driver.config + 1 ELSE driver.config,
                     !.pc = IF driver.config < ConfigCount(driver.variant)
                            THEN "configure" ELSE "compare"]
    /\ UNCHANGED <<source, engine, req, resp, slept, gen, events, timing, call, logs>>

\* main: the comparison is printed.  An exception of print_comparison is not
\* caught in benchmark.py and benchmark_with_logs.py: the process ends with
\* a traceback.
main_compare ==
    /\ driver.pc = "compare"
    /\ LET report == report_of(driver.variant, driver.all_results)
       IN  driver' = [driver EXCEPT !.report = report,
                         !.pc = IF report.raised THEN "aborted"
                                ELSE IF driver.variant = "benchmark_with_logs" THEN "done"
                                ELSE "save",
                         !.exit = IF report.raised THEN "traceback"
                                  ELSE IF driver.variant = "benchmark_with_logs"
                                  THEN "normal" ELSE ""]
    /\ UNCHANGED <<source, engine, req, resp, slept, gen, events, timing, call, logs>>

\* main: the results are written to the JSON file (benchmark.py,
\* benchmark_grep.py).
main_save ==
    /\ driver.pc = "save"
    /\ driver' = [driver EXCEPT !.saved = TRUE,
                     !.pc = IF driver.variant = "benchmark_grep" THEN "finally" ELSE "done",
                     !.exit = IF driver.variant = "benchmark_grep" THEN "" ELSE "normal"]
    /\ UNCHANGED <<source, engine, req, resp, slept, gen, events, timing, call, logs>>

\* main of benchmark_grep.py, the finally clause after the try block ran to
\* its end: if server_process: stop_mock_server(server_process)
main_finally ==
    /\ driver.pc = "finally"
    /\ driver' = [driver EXCEPT !.pc = "done", !.exit = "normal",
                     !.servers = stop_mock_server(driver.servers, driver.server_process)]
    /\ UNCHANGED <<source, engine, req, resp, slept, gen, events, timing, call, logs>>

\* The positions of main of benchmark_grep.py inside its try block.
TryBlock == {"configure", "restart", "popen", "starting", "query", "wait",
             "compare", "save"}

\* main of benchmark_grep.py: KeyboardInterrupt is raised inside the try
\* block (subprocess.run kills a CLI process in flight before it lets the
\* exception through); the except clause prints a message and the finally
\* clause stops the process server_process names.
main_interrupt ==
    /\ driver.variant = "benchmark_grep"
    /\ driver.pc \in TryBlock
    /\ driver' = [driver EXCEPT !.pc = "done", !.exit = "interrupt", !.inflight = 0,
                     !.servers = stop_mock_server(driver.servers, driver.server_process)]
    /\ UNCHANGED <<source, engine, req, resp, slept, gen, events, timing, call, logs>>

\* main of benchmark_grep.py: open() in update_mock_engine_speed or
\* subprocess.Popen in start_mock_server raises (a file that is missing or
\* not accessible); the except clause prints the error and the finally
\* clause stops the process server_process names.
main_exception ==
    /\ driver.variant = "benchmark_grep"
    /\ driver.pc \in {"configure", "popen"}
    /\ driver' = [driver EXCEPT !.pc = "done", !.exit = "exception",
                     !.servers = stop_mock_server(driver.servers, driver.server_process)]
    /\ UNCHANGED <<source, engine, req, resp, slept, gen, events, timing, call, logs>>

\* Whether mock_engine.log can be opened when the tailer starts.
LogFiles == {"present", "missing", "unreadable"}

\* The sweep of each of the three drivers, benchmark_with_logs.py without a
\* log it can open (its log side channel is explored under SpecLogs).
InitDriver ==
    /\ source = MockEngineSource
    /\ engine = start_engine(MockEngineSource)
    /\ req = NoReq
    /\ resp = NoResp
    /\ slept = <<>>
    /\ gen = NoGen
    /\ events = <<>>
    /\ timing = NoTiming
    /\ \E v \in Variants :
          /\ driver = [NoDriver EXCEPT !.variant = v, !.pc = "configure", !.config = 1]
          /\ logs = IF v = "benchmark_with_logs"
                    THEN [NoLogs EXCEPT !.file = "missing", !.tailer = "started"]
                    ELSE NoLogs
    /\ call = NoCall

NextDriver ==
    \/ main_configure
    \/ main_restart
    \/ main_stop_server
    \/ start_mock_server_popen
    \/ start_mock_server_return
    \/ run_query_start
    \/ \E o \in CliOutcomes : run_query_end(o)
    \/ run_qwen_query_extract
    \/ tail_open
    \/ suite_end
    \/ main_compare
    \/ main_save
    \/ main_finally

\* The sweep of benchmark_with_logs.py with its log side channel: the log
\* present or not, the tailer thread beside the main flow, and the server
\* writing to the log while a query is served.  The CLI returns with
\* success or failure, or runs into the timeout.
LogCliOutcomes == {o \in CliOutcomes : o.elapsed = Frac(1, 1) \/ o.kind = "timeout"}

InitLogs ==
    /\ source = MockEngineSource
    /\ engine = start_engine(MockEngineSource)
    /\ req = NoReq
    /\ resp = NoResp
    /\ slept = <<>>
    /\ gen = NoGen
    /\ events = <<>>
    /\ timing = NoTiming
    /\ driver = [NoDriver EXCEPT !.variant = "benchmark_with_logs", !.pc = "configure",
                    !.config = 1]
    /\ call = NoCall
    /\ \E f \in LogFiles : logs = [NoLogs EXCEPT !.file = f, !.tailer = "started"]

NextLogs ==
    \/ main_configure
    \/ main_restart
    \/ run_query_start
    \/ \E o \in LogCliOutcomes : run_query_end(o)
    \/ run_qwen_query_extract
    \/ tail_open
    \/ tail_readline
    \/ \E text \in LogTexts : server_log(text)
    \/ suite_end
    \/ main_compare

\* The automated driver benchmark_grep.py with the ways its try block can be
\* left: to its end, by an exception, by KeyboardInterrupt.
InitServers ==
    /\ source = MockEngineSource
    /\ engine = start_engine(MockEngineSource)
    /\ req = NoReq
    /\ resp = NoResp
    /\ slept = <<>>
    /\ gen = NoGen
    /\ events = <<>>
    /\ timing = NoTiming
    /\ driver = [NoDriver EXCEPT !.variant = "benchmark_grep", !.pc = "configure",
                    !.config = 1]
    /\ call = NoCall
    /\ logs = NoLogs

NextServers ==
    \/ main_configure
    \/ main_stop_server
    \/ start_mock_server_popen
    \/ start_mock_server_return
    \/ run_query_start
    \/ \E o \in CliOutcomes : run_query_end(o)
    \/ suite_end
    \/ main_compare
    \/ main_save
    \/ main_finally
    \/ main_interrupt
    \/ main_exception

(***************************************************************************)
(* The statistics functions called directly on every list of at most       *)
(* MaxResults results.                                                     *)
(***************************************************************************)
CallResults == {benchmark_run_grep_query(o) : o \in CliOutcomes}

InitStats ==
    /\ source = MockEngineSource
    /\ engine = start_engine(MockEngineSource)
    /\ req = NoReq
    /\ resp = NoResp
    /\ slept = <<>>
    /\ gen = NoGen
    /\ events = <<>>
    /\ timing = NoTiming
    /\ driver = NoDriver
    /\ \E rs \in SeqsUpTo(CallResults, MaxResults) : call = [NoCall EXCEPT !.results = rs]
    /\ logs = NoLogs

\* benchmark.calculate_stats(results)
call_calculate_stats ==
    /\ call.fn = "none"
    /\ call' = [call EXCEPT !.fn = "calculate_stats",
                   !.stats = calculate_stats(call.results)]
    /\ UNCHANGED <<source, engine, req, resp, slept, gen, events, timing, driver, logs>>

\* the statistics block of benchmark_grep.run_benchmark_suite
call_suite_statistics ==
    /\ call.fn = "none"
    /\ call' = [call EXCEPT !.fn = "suite_statistics",
                   !.stats = suite_statistics(call.results, Len(call.results))]
    /\ UNCHANGED <<source, engine, req, resp, slept, gen, events, timing, driver, logs>>

NextStats == call_calculate_stats \/ call_suite_statistics

(***************************************************************************)
(* grep_search called directly on the queries of at most MaxQueryWords     *)
(* words over a vocabulary of synonyms (of every category, in both cases)  *)
(* and other words; the empty query is the query of no word.               *)
(***************************************************************************)
GrepWords == {"DEF", "method", "classes", "dependencies", "const", "variable",
              "Testing", "hello"}
GrepQueries == {Join(ws, " ") : ws \in SeqsUpTo(GrepWords, MaxQueryWords)}

InitGrep ==
    /\ source = MockEngineSource
    /\ engine = start_engine(MockEngineSource)
    /\ req = NoReq
    /\ resp = NoResp
    /\ slept = <<>>
    /\ gen = NoGen
    /\ events = <<>>
    /\ timing = NoTiming
    /\ driver = NoDriver
    /\ \E q \in GrepQueries : call = [NoCall EXCEPT !.query = PyStr(q)]
    /\ logs = NoLogs

\* mock_engine.grep_search(query)
call_grep_search ==
    /\ call.fn = "none"
    /\ call' = [call EXCEPT !.fn = "grep_search", !.text = grep_search(call.query)]
    /\ UNCHANGED <<source, engine, req, resp, slept, gen, events, timing, driver, logs>>

NextGrep == call_grep_search

(***************************************************************************)
(* The timing functions called directly, on token counts 0..MaxTokens and  *)
(* under every decode speed update_mock_engine_speed can configure.        *)
(***************************************************************************)
InitTiming ==
    /\ \E t \in SpeedInputs :
          /\ source = update_mock_engine_speed(MockEngineSource, t)
          /\ engine = start_engine(update_mock_engine_speed(MockEngineSource, t))
    /\ req = NoReq
    /\ resp = NoResp
    /\ slept = <<>>
    /\ gen = NoGen
    /\ events = <<>>
    /\ \E p \in 0..MaxTokens, c \in 0..MaxTokens :
          timing = [NoTiming EXCEPT !.p = p, !.c = c]
    /\ driver = NoDriver
    /\ call = NoCall
    /\ logs = NoLogs

\* mock_engine.simulate_timing(p, c)
call_simulate_timing ==
    /\ timing.fn = "none"
    /\ LET t == simulate_timing(timing.p, timing.c)
       IN  timing' = [timing EXCEPT !.fn = "simulate_timing",
                          !.raised = t.raised, !.value = t.value]
    /\ UNCHANGED <<logs, driver, call, source, engine, req, resp, slept, gen, events>>

\* await mock_vllm_server.simulate_generation_timing(p, c)
call_simulate_generation_timing ==
    /\ timing.fn = "none"
    /\ slept' = simulate_generation_timing(timing.p, timing.c)
    /\ timing' = [timing EXCEPT !.fn = "simulate_generation_timing"]
    /\ UNCHANGED <<logs, driver, call, source, engine, req, resp, gen, events>>

NextTiming == call_simulate_timing \/ call_simulate_generation_timing

(***************************************************************************)
(* The stream generators called directly, stream_response(text, ...) of    *)
(* mock_engine and generate_stream of mock_vllm_server over response_text, *)
(* on the texts of at most MaxWords words (the text of no word included)   *)
(* and on texts with runs of whitespace.                                   *)
(***************************************************************************)
StreamWords == {"a", "bc"}
StreamTexts ==
    {Join(ws, " ") : ws \in SeqsUpTo(StreamWords, MaxWords)}
        \cup {"   ", " a  bc\n\na ", "a\tbc a bc\n"}

InitStream ==
    /\ source = MockEngineSource
    /\ engine = start_engine(MockEngineSource)
    /\ \E s \in {"engine", "vllm"}, text \in StreamTexts :
          /\ req = ChatReq(s, <<Message("user", PyStr("hello"))>>, TRUE)
          /\ resp = [NoResp EXCEPT !.status = 200, !.object = "text/event-stream",
                        !.text = text]
          /\ gen = stream_response(text)
    /\ slept = <<>>
    /\ events = <<>>
    /\ timing = NoTiming
    /\ driver = NoDriver
    /\ call = NoCall
    /\ logs = NoLogs

NextStream ==
    \/ generate_chunk
    \/ generate_final
    \/ generate_done
    \/ generate_except
    \/ generate_return
    \/ generate_stream_word
    \/ generate_stream_final
    \/ generate_stream_done
    \/ generate_stream_return

Init ==
    /\ source = MockEngineSource
    /\ engine = start_engine(MockEngineSource)
    /\ req = NoReq
    /\ resp = NoResp
    /\ slept = <<>>
    /\ gen = NoGen
    /\ events = <<>>
    /\ timing = NoTiming
    /\ driver = NoDriver
    /\ call = NoCall
    /\ logs = NoLogs

Next ==
    \/ \E p \in CompletionPrompts : completions(CompletionReq(p))
    \/ \E r \in BodylessReqs("completions") : completions(r)
    \/ \E r \in EngineChatRequests : chat_completions(r)
    \/ \E r \in BodylessReqs("chat") : chat_completions(r)
    \/ generate_chunk
    \/ generate_final
    \/ generate_done
    \/ generate_except
    \/ generate_return
    \/ \E r \in VllmChatRequests, rnd \in RandomDraws : vllm_chat_completions(r, rnd)
    \/ generate_stream_word
    \/ generate_stream_final
    \/ generate_stream_done
    \/ generate_stream_return

Spec == Init /\ [][Next]_vars
SpecConfig == Init /\ [][NextConfig]_vars
SpecTiming == InitTiming /\ [][NextTiming]_vars
SpecDriver == InitDriver /\ [][NextDriver]_vars
SpecServers == InitServers /\ [][NextServers]_vars
SpecLogs == InitLogs /\ [][NextLogs]_vars
SpecStats == InitStats /\ [][NextStats]_vars
SpecGrep == InitGrep /\ [][NextGrep]_vars
SpecStream == InitStream /\ [][NextStream]_vars
(***************************************************************************)
(* Properties.                                                             *)
(***************************************************************************)
\* A request of mock_engine that reached the trace selector.
EngineSelected ==
    req.server = "engine" /\ req.body = "object" /\ resp.status # 0

\* The value the handler passed to select_reasoning_trace.
SelectorArg ==
    IF req.endpoint = "completions" THEN req.prompt ELSE PyStr(resp.user_message)

\* The non-default traces, by registration index, one of whose alternatives
\* occurs in the lower-cased text.
MatchingTraces(text) ==
    LET lowered == Lower(text)
    IN  {i \in 1..4 : \E k \in 1..Len(REASONING_TRACES[i].pattern) :
                        Contains(lowered, REASONING_TRACES[i].pattern[k])}

SearchKeywords == {"grep", "search", "find"}

\* C1: select_reasoning_trace returns the body of the first trace, in the
\* order grep, debug, refactor, explain, whose pattern matches the
\* lower-cased prompt, and the default body when none matches; a prompt
\* containing grep, search or find gets the grep body.
C1_FirstMatchWins ==
    EngineSelected =>
        LET m == IF Truthy(SelectorArg) THEN MatchingTraces(PyToStr(SelectorArg)) ELSE {}
        IN  /\ resp.trace =
                IF m = {} THEN REASONING_TRACES[5].response
                ELSE REASONING_TRACES[CHOOSE i \in m : \A j \in m : i <= j].response
            /\ (/\ Truthy(SelectorArg)
                /\ \E w \in SearchKeywords : Contains(Lower(PyToStr(SelectorArg)), w))
                    => resp.trace = REASONING_TRACES[1].response

\* A prompt with upper-case letters that matches the grep and the debug
\* pattern was answered with the grep trace.
C1_Witness ==
    /\ EngineSelected
    /\ Truthy(SelectorArg)
    /\ PyToStr(SelectorArg) # Lower(PyToStr(SelectorArg))
    /\ {1, 2} \subseteq MatchingTraces(PyToStr(SelectorArg))
    /\ resp.trace = REASONING_TRACES[1].response

\* C2: for an empty or absent (None) prompt select_reasoning_trace returns
\* the default trace body and tests no pattern.
C2_EmptyPromptDefault ==
    (EngineSelected /\ ~Truthy(SelectorArg)) =>
        /\ resp.trace = REASONING_TRACES[5].response
        /\ resp.searches = 0

\* /v1/completions was called with "prompt": null and answered.
C2_Witness ==
    /\ EngineSelected
    /\ req.endpoint = "completions"
    /\ req.prompt = PyNone
    /\ resp.status = 200
    /\ resp.text = REASONING_TRACES[5].response


\* C3: a rate of zero is rejected when the driver writes the rate constants,
\* so no request handled by the server reaches a division by zero in
\* simulate_timing.
C3_ZeroRateRejected ==
    ~(req.server = "engine" /\ resp.status = 500 /\ resp.error = "division by zero")

\* The delay base + p/prefill_rate + c/decode_rate over one denominator.
ExactDelay(base_ms, p, prefill_rate, c, decode_rate) ==
    Frac(base_ms * prefill_rate * decode_rate
            + 1000 * (p * decode_rate + c * prefill_rate),
         1000 * prefill_rate * decode_rate)

\* C4: for token counts p, c >= 0 and positive rates the simulated delay is
\* base + p/prefill_rate + c/decode_rate (base 0 in mock_engine, BASE_LATENCY_MS
\* / 1000 in mock_vllm_server), is not negative, and does not decrease when p
\* or c grows.
C4_DelayFormula ==
    /\ (timing.fn = "simulate_timing" /\ engine.prefill > 0 /\ engine.decode > 0) =>
          /\ ~timing.raised
          /\ FracEq(timing.value,
                    ExactDelay(0, timing.p, engine.prefill, timing.c, engine.decode))
          /\ timing.value.n >= 0 /\ timing.value.d > 0
          /\ \A p2 \in 0..timing.p, c2 \in 0..timing.c :
                FracLeq(simulate_timing(p2, c2).value, timing.value)
    /\ timing.fn = "simulate_generation_timing" =>
          LET total == FracSum(slept)
          IN  /\ FracEq(total, ExactDelay(BASE_LATENCY_MS, timing.p, PREFILL_TOKENS_PER_SEC,
                                          timing.c, DECODE_TOKENS_PER_SEC))
              /\ total.n >= 0 /\ total.d > 0
              /\ \A p2 \in 0..timing.p, c2 \in 0..timing.c :
                    FracLeq(FracSum(simulate_generation_timing(p2, c2)), total)

\* simulate_timing was called with positive token counts under a decode rate
\* other than the file's own.
C4_Witness ==
    /\ timing.fn = "simulate_timing"
    /\ timing.p = MaxTokens /\ timing.c > 0
    /\ engine.decode = 25
    /\ ~timing.raised
    /\ timing.value.n > 0

\* C5: a non-streaming request to /v1/completions or /v1/chat/completions of
\* mock_engine, under positive rates, suspends for min(simulate_timing(
\* prompt_tokens, completion_tokens), 2.0) seconds, never more than 2.
C5_SleepCapped ==
    (/\ EngineSelected /\ ~req.stream
     /\ engine.prefill > 0 /\ engine.decode > 0) =>
        LET delay == ExactDelay(0, resp.prompt_tokens, engine.prefill,
                                resp.completion_tokens, engine.decode)
        IN  /\ resp.status = 200
            /\ Len(slept) = 1
            /\ FracEq(slept[1], IF FracLeq(delay, Frac(2, 1)) THEN delay ELSE Frac(2, 1))
            /\ FracLeq(slept[1], Frac(2, 1))

\* A request whose simulated delay exceeds two seconds was answered after a
\* suspension of two seconds, under a decode rate the driver configured.
C5_Witness ==
    /\ EngineSelected /\ ~req.stream /\ resp.status = 200
    /\ engine.decode = 25
    /\ ~FracLeq(simulate_timing(resp.prompt_tokens, resp.completion_tokens).value,
                Frac(2, 1))
    /\ slept = <<Frac(2, 1)>>


\* The content deltas of the events emitted so far, concatenated in order.
RECURSIVE ConcatDeltas(_)
ConcatDeltas(evs) ==
    IF evs = <<>> THEN ""
    ELSE (IF Head(evs).kind = "content" THEN Head(evs).content ELSE "")
            \o ConcatDeltas(Tail(evs))

\* Whitespace normalisation: runs of whitespace become one space, none at
\* either end.
Normalize(s) == Join(Split(s), " ")

StreamEnded == gen.phase \in {"final", "done", "closed"}

HasGrepSection == Contains(resp.text, "\n\nGrep results:\n")

\* The request text of a mock_engine request: the prompt, or the user message.
RequestText ==
    IF req.endpoint = "completions" THEN PyToStr(req.prompt) ELSE resp.user_message

\* C8: in both handlers of mock_engine the grep results are appended exactly
\* when the request text contains grep, search or find (case-insensitive).
C8_GrepIffSearchLike ==
    (EngineSelected /\ resp.status = 200) =>
        (HasGrepSection <=> \E w \in SearchKeywords : Contains(Lower(RequestText), w))

HasUserMessage == \E i \in 1..Len(req.messages) : req.messages[i].role = "user"

\* C9: a chat request without a message of role user (also with no message
\* at all) is answered successfully with the default trace, in both servers.
C9_NoUserDefault ==
    (/\ req.endpoint = "chat" /\ req.body = "object" /\ resp.status # 0
     /\ ~HasUserMessage) =>
        /\ resp.status = 200
        /\ IF req.server = "engine"
           THEN resp.text = REASONING_TRACES[5].response
           ELSE resp.trace = "default"

\* The latest message of role user.
LatestUser ==
    req.messages[CHOOSE i \in 1..Len(req.messages) :
                    /\ req.messages[i].role = "user"
                    /\ \A j \in (i + 1)..Len(req.messages) : req.messages[j].role # "user"]

\* The text of a content: a string as it is, a list as its text-bearing
\* fragments in order, separated by a space.
ContentAsText(content) ==
    CASE content.kind = "str" -> content.s
      [] content.kind = "none" -> ""
      [] OTHER ->
            LET idx == {i \in 1..Len(content.items) : content.items[i].kind # "image"}
                nth(k) == CHOOSE i \in idx : Cardinality({j \in idx : j <= i}) = k
            IN  Join([k \in 1..Cardinality(idx) |-> content.items[nth(k)].s], " ")

\* C10: the chat handler selects on the content of the latest message of
\* role user, whatever other messages precede or follow it.
C10_LatestUserDecides ==
    (/\ req.endpoint = "chat" /\ req.body = "object" /\ resp.status # 0
     /\ HasUserMessage) =>
        /\ resp.user_message = ContentAsText(LatestUser.content)
        /\ req.server = "engine" =>
              resp.trace = chat_locals(<<LatestUser>>).trace


\* C11: a request of mock_engine that carries no JSON body is answered with
\* status 400 and a JSON error field; no trace is selected for it and the
\* handler does not sleep.
C11_NoBodyClientError ==
    (/\ req.server = "engine" /\ req.body \in {"null", "empty", "absent"}
     /\ resp.status # 0) =>
        /\ resp.status = 400
        /\ resp.error # ""
        /\ resp.trace = "" /\ resp.searches = 0
        /\ slept = <<>>


\* The handler of the request raised an exception: request.json raised, or
\* simulate_timing divided by zero.
HandlerRaised ==
    \/ req.body = "empty"
    \/ /\ req.body = "object" /\ ~req.stream
       /\ (engine.prefill = 0 \/ engine.decode = 0)

\* C12: an exception raised while a handler of mock_engine builds its
\* response, streaming or not, gives status 500 with a JSON error body; no
\* response with a success status carries an error.
C12_ExceptionsGive500 ==
    (req.server = "engine" /\ resp.status # 0) =>
        /\ HandlerRaised => (resp.status = 500 /\ resp.error # "")
        /\ resp.status = 200 =>
              /\ resp.error = ""
              /\ \A i \in 1..Len(events) : events[i].kind # "error"


\* A suite of the driver is over and its statistics are the last entry of
\* all_results; results still holds the results of that suite.
SuiteDone == driver.all_results # <<>> /\ driver.pc \notin {"query", "wait", "extract"}
LastStats == driver.all_results[Len(driver.all_results)]

\* The indices of the successful results of a list, and the sum of their times.
Successes(results) == {k \in DOMAIN results : results[k].success}
SuccessTotal(results) ==
    FracSum([k \in DOMAIN results |->
                IF results[k].success THEN results[k].time ELSE Frac(0, 1)])

\* C13: in every driver variant a query that ran into the timeout is
\* recorded as failed, with error "timeout" and the fixed 30 seconds as its
\* time; it counts in the number of queries and its time is not part of the
\* timing aggregates.
C13_TimeoutRecorded ==
    /\ \A k \in DOMAIN driver.results :
          driver.results[k].error = "timeout" =>
              /\ ~driver.results[k].success
              /\ driver.results[k].time = Frac(TIMEOUT, 1)
    /\ SuiteDone =>
          /\ Len(driver.results) = QueryCount(driver.variant)
          /\ FracEq(LastStats.total, SuccessTotal(driver.results))

\* C14: whatever queries time out or fail, the driver does not abort: every
\* query of every configuration is issued, the comparison is reported and
\* the results file is written.
C14_SweepCompletes ==
    /\ driver.pc # "aborted"
    /\ driver.pc \in {"compare", "save", "done"} =>
          /\ Len(driver.all_results) = ConfigCount(driver.variant)
          /\ Len(driver.results) = QueryCount(driver.variant)
    /\ driver.pc = "done" =>
          /\ driver.report.printed
          /\ driver.variant # "benchmark_with_logs" => driver.saved

\* The aggregates of a statistics record are those of the successful
\* results of the list.
AggregatesOverSuccesses(stats, results) ==
    LET S == Successes(results)
    IN  /\ FracEq(stats.total, SuccessTotal(results))
        /\ stats.avg.n * Cardinality(S) * stats.total.d = stats.total.n * stats.avg.d
        /\ \E k \in S : FracEq(stats.min, results[k].time)
        /\ \A k \in S : FracLeq(stats.min, results[k].time)
        /\ \E k \in S : FracEq(stats.max, results[k].time)
        /\ \A k \in S : FracLeq(results[k].time, stats.max)

\* C15: calculate_stats computes avg, min, max and total over the times of
\* the successful results only, and success_rate as 100 * successes / number
\* of results; without a successful result it returns the all-zero record.
\* The statistics of benchmark_grep's suite are over the successes as well.
C15_StatsOverSuccesses ==
    /\ call.fn = "calculate_stats" =>
          IF Successes(call.results) = {}
          THEN /\ call.stats.avg.n = 0 /\ call.stats.min.n = 0 /\ call.stats.max.n = 0
               /\ call.stats.total.n = 0 /\ call.stats.success_rate.n = 0
          ELSE /\ AggregatesOverSuccesses(call.stats, call.results)
               /\ call.stats.success_rate.n * Len(call.results)
                      = 100 * Cardinality(Successes(call.results)) * call.stats.success_rate.d
    /\ (call.fn = "suite_statistics" /\ Successes(call.results) # {}) =>
          /\ AggregatesOverSuccesses(call.stats, call.results)
          /\ call.stats.successful_queries = Cardinality(Successes(call.results))

\* A rational rounded to one decimal, in tenths (the format .1f).
Tenths(f) == (2 * 10 * f.n + f.d) \div (2 * f.d)

\* calculate_stats was called on times 1.0 and 3.0 plus one timeout: avg 2.0,
\* min 1.0, max 3.0, total 4.0, success rate 66.7%.
C15_Witness ==
    /\ call.fn = "calculate_stats"
    /\ Len(call.results) = 3
    /\ call.results[1].success /\ call.results[1].time = Frac(1, 1)
    /\ call.results[2].success /\ call.results[2].time = Frac(3, 1)
    /\ call.results[3].error = "timeout"
    /\ call.stats.avg = Frac(2, 1) /\ call.stats.min = Frac(1, 1)
    /\ call.stats.max = Frac(3, 1) /\ call.stats.total = Frac(4, 1)
    /\ Tenths(call.stats.success_rate) = 667

\* C16: print_comparison names the configuration with the lowest average as
\* fastest and reports the speedup slowest average / fastest average, for
\* every list of statistics calculate_stats produced.
C16_FastestAndSpeedup ==
    (driver.variant = "benchmark" /\ driver.pc \in {"save", "done", "aborted"}) =>
        LET all_results == driver.all_results
            report == driver.report
        IN  /\ report.printed /\ ~report.raised
            /\ report.fastest \in DOMAIN all_results
            /\ report.slowest \in DOMAIN all_results
            /\ \A j \in DOMAIN all_results :
                  /\ FracLeq(all_results[report.fastest].avg, all_results[j].avg)
                  /\ FracLeq(all_results[j].avg, all_results[report.slowest].avg)
            /\ report.speedup.n * all_results[report.fastest].avg.n
                    * all_results[report.slowest].avg.d
                  = all_results[report.slowest].avg.n * report.speedup.d
                    * all_results[report.fastest].avg.d

\* C17: the driver runs its queries one at a time: at most one CLI process is
\* in flight, and within a configuration the queries are invoked once each,
\* in list order, without a retry after a failure or a timeout.
C17_SequentialNoRetry ==
    /\ driver.inflight <= 1
    /\ driver.inflight = 1 <=> driver.pc = "wait"
    /\ \A k \in DOMAIN driver.invoked : driver.invoked[k] = k
    /\ Len(driver.invoked) = Len(driver.results) + driver.inflight
            + (IF driver.pc = "extract" THEN 1 ELSE 0)
    /\ SuiteDone => Len(driver.invoked) = QueryCount(driver.variant)

\* A suite has ended in which a query timed out and another failed.
C17_Witness ==
    /\ SuiteDone
    /\ Len(driver.invoked) > 1
    /\ \E k \in DOMAIN driver.results : driver.results[k].error = "timeout"
    /\ \E k \in DOMAIN driver.results :
          ~driver.results[k].success /\ driver.results[k].error = ""


\* The categories of keyword_map, by declaration index, one of whose
\* synonyms occurs in the lower-cased query.
QualifyingCategories(query) ==
    {c \in 1..Len(keyword_map) :
        \E k \in 1..Len(keyword_map[c].keywords) :
            Contains(Lower(query), keyword_map[c].keywords[k])}

\* The fabricated lines of the categories cs from index c on, in declaration
\* order.
RECURSIVE CategoryLines(_, _)
CategoryLines(cs, c) ==
    IF c > Len(keyword_map) THEN <<>>
    ELSE (IF c \in cs THEN GREP_RESPONSES[keyword_map[c].category] ELSE <<>>)
            \o CategoryLines(cs, c + 1)

\* What the claim expects of grep_search for a query.
ExpectedGrep(query) ==
    IF QualifyingCategories(query) = {} THEN "No matches found"
    ELSE Join(CategoryLines(QualifyingCategories(query), 1), "\n")

\* C18 as stated: for every query string grep_search returns the lines of
\* the qualifying categories, in declaration order and without
\* deduplication, joined by newlines, and "No matches found" when no
\* category qualifies.
C18_GrepSearchEveryQuery ==
    call.fn = "grep_search" => call.text = ExpectedGrep(call.query.s)

\* C18 amended: the same for every non-empty query; for the empty query
\* grep_search returns "No query provided".
C18_GrepSearchNonEmpty ==
    call.fn = "grep_search" =>
        call.text = IF call.query.s = "" THEN "No query provided"
                    ELSE ExpectedGrep(call.query.s)

\* grep_search was called on a query that names a later category before an
\* earlier one, and on which two categories qualify.
C18_Witness ==
    /\ call.fn = "grep_search"
    /\ call.query.s = "Testing DEF"
    /\ QualifyingCategories(call.query.s) = {1, 5}
    /\ Len(Split(call.text)) > 0
    /\ StartsWith(call.text, GREP_RESPONSES["function"][1])


\* floor(len(s) / 4) of the text of a JSON value (0 for null).
FloorQuarter(v) == IF v.kind = "none" THEN 0 ELSE Len(PyToStr(v)) \div 4

RECURSIVE SumFloorQuarter(_)
SumFloorQuarter(messages) ==
    IF messages = <<>> THEN 0
    ELSE FloorQuarter(Head(messages).content) + SumFloorQuarter(Tail(messages))

\* The prompt text mock_vllm_server counts: the contents joined by newlines.
RECURSIVE JoinedContents(_)
JoinedContents(messages) ==
    IF messages = <<>> THEN ""
    ELSE Head(messages).content.s
            \o (IF Len(messages) > 1 THEN "\n" ELSE "") \o JoinedContents(Tail(messages))

\* C19: the token estimate of a string is floor(len / 4), 0 for the empty
\* string; the usage block of a response reports these estimates of the
\* prompt and of the response text, and their sum as total_tokens.
C19_TokenEstimates ==
    (/\ req.server \in {"engine", "vllm"} /\ resp.status = 200 /\ ~req.stream) =>
        /\ resp.completion_tokens = Len(resp.text) \div 4
        /\ resp.total_tokens = resp.prompt_tokens + resp.completion_tokens
        /\ resp.prompt_tokens =
              IF req.server = "vllm" THEN Len(JoinedContents(req.messages)) \div 4
              ELSE IF req.endpoint = "completions" THEN FloorQuarter(req.prompt)
              ELSE SumFloorQuarter(req.messages)
        /\ (req.endpoint = "completions" /\ req.prompt = PyStr("")) =>
              resp.prompt_tokens = 0

\* A completion was served whose prompt has a length that is no multiple
\* of 4.
C19_Witness ==
    /\ req.server = "engine" /\ resp.status = 200
    /\ req.endpoint = "completions"
    /\ req.prompt = PyStr("hello")
    /\ resp.prompt_tokens = 1
    /\ resp.completion_tokens > 0


\* C20: update_mock_engine_speeds changes only the two lines that define
\* PREFILL_TOKENS_PER_SEC and DECODE_TOKENS_PER_SEC (the first two lines of
\* the modelled file); every other line, the body of simulate_timing
\* included, stays as it was.
C20_OnlyConstantLinesChange ==
    /\ Len(source) = Len(MockEngineSource)
    /\ \A i \in 3..Len(source) : source[i] = MockEngineSource[i]


\* C26: in mock_engine a response that carries the appended "Grep results:"
\* section begins with the grep trace: the section never follows the debug,
\* refactor, explain or default trace.
C26_GrepSectionAfterGrepTrace ==
    (EngineSelected /\ resp.status = 200 /\ HasGrepSection) =>
        /\ resp.trace = REASONING_TRACES[1].response
        /\ StartsWith(resp.text, REASONING_TRACES[1].response \o "\n\nGrep results:\n")

\* A request whose text also matches the debug pattern was answered with the
\* grep trace followed by the grep results.
C26_Witness ==
    /\ EngineSelected
    /\ resp.status = 200
    /\ HasGrepSection
    /\ 2 \in MatchingTraces(RequestText)
    /\ resp.trace = REASONING_TRACES[1].response

\* The content events among evs, in emission order.
RECURSIVE ContentEvents(_)
ContentEvents(evs) ==
    IF evs = <<>> THEN <<>>
    ELSE (IF Head(evs).kind = "content" THEN <<Head(evs)>> ELSE <<>>)
            \o ContentEvents(Tail(evs))

\* C24: for a response text of n whitespace-separated words, a stream of
\* mock_engine that reaches its terminating event has emitted ceil(n/3)
\* content events, the k-th (from 0) carrying the words 3k to 3k+2 in their
\* order (the last one those that remain), and a stream of mock_vllm_server
\* has emitted n content events of one word each; for n = 0 the stream is
\* the terminating event and the [DONE] marker only.
C24_ChunkingOfWords ==
    LET words == Split(resp.text)
        n == Len(words)
        contents == ContentEvents(events)
        size == IF req.server = "engine" THEN 3 ELSE 1
    IN  /\ \A k \in 1..Len(contents) :
              /\ size * (k - 1) < n
              /\ Split(contents[k].content)
                    = SubSeq(words, size * (k - 1) + 1,
                             IF size * k < n THEN size * k ELSE n)
        /\ StreamEnded =>
              Len(contents) = IF req.server = "engine" THEN (n + 2) \div 3 ELSE n
        /\ (n = 0 /\ gen.phase \in {"done", "closed"}) =>
              events = <<FinalEvent, DoneEvent>>

\* A stream of mock_engine over a text of more than three words whose count
\* is not a multiple of three has been emitted to its end.
C24_Witness ==
    /\ req.server = "engine"
    /\ gen.phase = "closed"
    /\ Len(Split(resp.text)) > 3
    /\ Len(Split(resp.text)) % 3 # 0
    /\ Len(ContentEvents(events)) = 2

\* C21: in every sweep no query of a configuration is issued before the rate
\* constants of that configuration were written and the restart step that
\* follows (the operator's acknowledgement, or stop and start of the server
\* subprocess) has completed, and every query of a configuration has
\* finished before the constants of a later configuration are written.
C21_ConfigureRestartThenQueries ==
    LET h == driver.history
    IN  /\ \A i \in DOMAIN h : h[i].ev = "issue" =>
              \E w \in 1..(i - 1), r \in 1..(i - 1) :
                  /\ w < r
                  /\ h[w] = Step("write", h[i].config, 0)
                  /\ h[r] = Step("restart", h[i].config, 0)
        /\ \A w \in DOMAIN h : h[w].ev = "write" =>
              \A i \in DOMAIN h : (h[i].ev = "issue" /\ h[i].config < h[w].config) =>
                  /\ i < w
                  /\ \E f \in (i + 1)..(w - 1) :
                        h[f] = Step("finish", h[i].config, h[i].query)

\* The automated driver has issued the last query of its second
\* configuration, after a query of the first one ran into the timeout.
C21_Witness ==
    /\ driver.variant = "benchmark_grep"
    /\ driver.config = 2
    /\ driver.pc = "wait"
    /\ driver.query = QueryCount(driver.variant)
    /\ \E i \in DOMAIN driver.history : driver.history[i] = Step("issue", 1, 1)
    /\ driver.all_results # <<>>
    /\ driver.all_results[1].failed_queries > 0

\* The server subprocesses the driver started that have not been stopped.
AliveServers == {i \in DOMAIN driver.servers : driver.servers[i] = "alive"}

\* At most one server subprocess of the automated driver is alive.
AtMostOneServerAlive == Cardinality(AliveServers) <= 1

\* C25: in benchmark_grep at most one mock server subprocess started by the
\* driver is alive at any time (the previous one is terminated and waited
\* for before the next is started), and when main has ended, on whichever
\* path (its normal end, an exception, KeyboardInterrupt), the server
\* started last has been stopped.
C25_OneServerStoppedAtExit ==
    /\ AtMostOneServerAlive
    /\ driver.pc = "done" =>
          \/ driver.servers = <<>>
          \/ driver.servers[Len(driver.servers)] = "stopped"

\* The configuration the results of driver.results were measured under.
ResultsConfig ==
    IF driver.pc \in {"query", "wait", "extract"} THEN driver.config
    ELSE Len(driver.all_results)

\* No result carries the time of a line that was written for another query.
ApiTimeOfOwnQuery ==
    \A k \in DOMAIN driver.results :
        driver.results[k].api_time # <<>> =>
            driver.results[k].api_of = <<ResultsConfig, k>>

\* No line that reports a response time waits in log_queue once the result
\* of the query it was written for is recorded.
ReportedTimesDrained ==
    \A i \in DOMAIN logs.queue :
        response_sent_in(logs.queue[i].text) # "" =>
            /\ driver.pc \in {"wait", "extract"}
            /\ logs.queue[i].serving = <<driver.config, driver.query>>

\* C22: with the log tailer running beside the main flow, the api_time
\* recorded for a query is the time the server reported for that query's own
\* request: a "Response sent in" line written while a query is served is
\* drained by the extract_api_time_from_logs call of that query and is never
\* attributed to a later query.
C22_ApiTimeOfOwnRequest ==
    driver.variant = "benchmark_with_logs" =>
        /\ ApiTimeOfOwnQuery
        /\ ReportedTimesDrained

\* C23: when mock_engine.log is missing or cannot be read, the tailer thread
\* ends without a trace and the main flow goes on: no line reaches
\* log_queue, every result has api_time None and overhead None, main is not
\* aborted, and when it has ended every query of every configuration was
\* run and the comparison was printed without an exception.
C23_TailerFailureAbsorbed ==
    (driver.variant = "benchmark_with_logs" /\ logs.file \in {"missing", "unreadable"}) =>
        /\ logs.tailer \in {"started", "ended"}
        /\ logs.queue = <<>>
        /\ \A k \in DOMAIN driver.results :
              /\ driver.results[k].api_time = <<>>
              /\ driver.results[k].overhead = <<>>
        /\ driver.pc # "aborted"
        /\ driver.pc = "done" =>
              /\ driver.report.printed /\ ~driver.report.raised
              /\ Len(driver.all_results) = ConfigCount(driver.variant)
              /\ \A c \in 1..ConfigCount(driver.variant), q \in 1..QueryCount(driver.variant) :
                    \E i \in DOMAIN driver.history, j \in DOMAIN driver.history :
                        /\ i < j
                        /\ driver.history[i] = Step("issue", c, q)
                        /\ driver.history[j] = Step("finish", c, q)

\* The sweep has ended without a log file: the tailer has ended, and the
\* comparison was printed over suites with successful queries.
C23_Witness ==
    /\ driver.variant = "benchmark_with_logs"
    /\ logs.file = "missing"
    /\ logs.tailer = "ended"
    /\ driver.pc = "done"
    /\ driver.report.printed
    /\ \A c \in DOMAIN driver.all_results : driver.all_results[c].error = ""
    /\ \E k \in DOMAIN driver.results : driver.results[k].success
=============================================================================
